---- MODULE Spec2Model ----
(***************************************************************************)
(* Model of the telemetry core of cartalyst.                               *)
(*                                                                         *)
(* TelemetryStreamEngine (src/services/TelemetryStreamService.ts): the     *)
(* connection state machine with Fibonacci backoff, the protocol-agnostic  *)
(* message normalizer and the GPS-derived kinematics window.               *)
(*                                                                         *)
(* The engine's private fields are the variables of the same name.  The    *)
(* host side of the event loop is modelled by two sets: `timers` holds the *)
(* setTimeout timers that are armed and have not fired, `transports` the   *)
(* EventSource objects that were created and not closed.  The engine only  *)
(* keeps handles (recoveryTimer, eventSource) into these sets, exactly as  *)
(* the code does, so leaking a timer or a transport is expressible.        *)
(***************************************************************************)
EXTENDS Integers, Sequences, FiniteSets, TLC

\* ------------------------------------------------------------------------
\* Bounds of the model
\* ------------------------------------------------------------------------
\* number of distinct state listeners / frame listeners that may register
NumStateListeners == 1
NumFrameListeners == 1
\* frames decoded between two connect() calls
MaxFrames == 3
\* the same, where the decoders are exercised on their own
MaxDecoded == 3
\* listeners of the Shadow-Line Engine and frames fed to it
NumShadowListeners == 1
NumLapListeners == 1
MaxShadowFrames == 101
\* frames that arrive before the first configure() call
MaxEarlyFrames == 2
MaxLoops == 3

\* ------------------------------------------------------------------------
\* Program constants
\* ------------------------------------------------------------------------
\* fibonacciMs: seed of a and b
SeedMs == 1000
\* fibonacciMs(30000): the cap handed to the generator
CapMs == 30000
\* scheduleRecovery: retry budget
MaxRecoveryAttempts == 10

\* null for object handles (timer ids and transport ids are positive)
Null == 0

ConnectionState == {"idle", "connecting", "live", "paused", "recovering", "dead"}

\* Endpoints handed to connect(): the empty string (falsy, establish()
\* returns at once), two well-formed URLs, and a string the EventSource
\* constructor rejects with a SyntaxError (the catch branch of establish()).
Urls == {"", "sse://a", "sse://b", "http://["}

\* new EventSource(url) throws for a URL that cannot be parsed
ConstructorThrows(url) == url = "http://["

StateListenerIds == 1..NumStateListeners
FrameListenerIds == 1..NumFrameListeners

VARIABLES
    \* fields of TelemetryStreamEngine
    state, endpoint, eventSource, frameListeners, stateListeners,
    recoveryTimer, backoffGenerator, recoveryAttempts,
    positionHistory, frameSequence,
    \* host event loop
    timers, transports,
    \* observation of the last handler that ran
    lastOp, stateCalls, frameCalls, timersCreated, decoderCalls,
    \* history
    scheduledSinceReset, lastSeqOut, reopened, derivedCount,
    \* history: pause() took effect and neither resume(), connect() nor
    \* disconnect() was called since
    pauseInEffect,
    \* environment mode: from now on every attempt fails and nobody calls
    \* connect()/disconnect()
    failing,
    \* fields of ShadowLineEngineCore (shadowState is its field state)
    startFinishLine, startFinishRadius, minLapTime, sectorBoundaries,
    trackLength, completedLaps, currentLap, shadowLap, shadowState,
    shadowListeners, lapCompleteListeners, lastFrame, crossingCooldown,
    \* observation of the last method of the Shadow-Line Engine that ran
    shadowOp, emitCalls, lapCompleteCalls,
    \* history: onLapComplete rounds since reset()
    lapCompleteEvents,
    \* the car whose frames the Shadow-Line Engine is fed
    carIndex, carTime, carPace, framesSent

engineVars == <<state, endpoint, eventSource, frameListeners, stateListeners,
                recoveryTimer, backoffGenerator, recoveryAttempts,
                positionHistory, frameSequence>>
hostVars == <<timers, transports>>
obsVars == <<lastOp, stateCalls, frameCalls, timersCreated, decoderCalls,
             scheduledSinceReset, lastSeqOut, reopened, derivedCount,
             pauseInEffect>>
streamVars == <<engineVars, hostVars, obsVars, failing>>
shadowEngineVars == <<startFinishLine, startFinishRadius, minLapTime,
                      sectorBoundaries, trackLength, completedLaps, currentLap,
                      shadowLap, shadowState, shadowListeners,
                      lapCompleteListeners, lastFrame, crossingCooldown>>
shadowObsVars == <<shadowOp, emitCalls, lapCompleteCalls, lapCompleteEvents>>
carVars == <<carIndex, carTime, carPace, framesSent>>
shadowVars == <<shadowEngineVars, shadowObsVars, carVars>>
vars == <<streamVars, shadowVars>>

Min(a, b) == IF a < b THEN a ELSE b
Max(a, b) == IF a > b THEN a ELSE b

\* ------------------------------------------------------------------------
\* fibonacciMs: the generator is its two locals a, b
\* ------------------------------------------------------------------------
fibonacciMs == [a |-> SeedMs, b |-> SeedMs]

\* yield Math.min(a, cap)
GenValue(g) == Min(g.a, CapMs)

\* [a, b] = [b, a + b]
GenAdvance(g) == [a |-> g.b, b |-> g.a + g.b]

\* ------------------------------------------------------------------------
\* The world a handler runs in: the engine's fields, the host's timers and
\* transports, and the log of the listener calls the handler made.
\* ------------------------------------------------------------------------
World ==
    [state |-> state, endpoint |-> endpoint, eventSource |-> eventSource,
     frameListeners |-> frameListeners, stateListeners |-> stateListeners,
     recoveryTimer |-> recoveryTimer, backoffGenerator |-> backoffGenerator,
     recoveryAttempts |-> recoveryAttempts,
     positionHistory |-> positionHistory, frameSequence |-> frameSequence,
     timers |-> timers, transports |-> transports,
     stateCalls |-> <<>>, frameCalls |-> <<>>, timersCreated |-> {},
     decoderCalls |-> <<>>, derivedCount |-> derivedCount,
     scheduledSinceReset |-> scheduledSinceReset, lastSeqOut |-> lastSeqOut,
     reopened |-> reopened]

Commit(w, op) ==
    /\ state' = w.state
    /\ endpoint' = w.endpoint
    /\ eventSource' = w.eventSource
    /\ frameListeners' = w.frameListeners
    /\ stateListeners' = w.stateListeners
    /\ recoveryTimer' = w.recoveryTimer
    /\ backoffGenerator' = w.backoffGenerator
    /\ recoveryAttempts' = w.recoveryAttempts
    /\ positionHistory' = w.positionHistory
    /\ frameSequence' = w.frameSequence
    /\ timers' = w.timers
    /\ transports' = w.transports
    /\ stateCalls' = w.stateCalls
    /\ frameCalls' = w.frameCalls
    /\ timersCreated' = w.timersCreated
    /\ scheduledSinceReset' = w.scheduledSinceReset
    /\ lastSeqOut' = w.lastSeqOut
    /\ reopened' = w.reopened
    /\ decoderCalls' = w.decoderCalls
    /\ derivedCount' = w.derivedCount
    /\ pauseInEffect' =
           IF op.op \in {"resume", "connect", "disconnect"} THEN FALSE
           ELSE IF op.op = "pause" THEN w.state = "paused"
           ELSE pauseInEffect
    /\ lastOp' = op
    /\ UNCHANGED shadowVars

\* a handle the host has not handed out and the engine does not hold
FreshId(used) == CHOOSE i \in 1..(Cardinality(used) + 1) : i \notin used

TimerIds(w) == {t.id : t \in w.timers}
TransportIds(w) == {e.id : e \in w.transports}

\* clearTimeout(h): disarms the timer if it is still armed
ClearTimeout(w, h) == [w EXCEPT !.timers = {t \in @ : t.id # h}]

\* setTimeout(cb, delay): arms a new timer and returns its handle
SetTimeout(w, delay) ==
    LET id == FreshId(TimerIds(w) \cup {w.recoveryTimer})
    IN  [w EXCEPT !.timers = @ \cup {[id |-> id, delay |-> delay]},
                  !.timersCreated = @ \cup {id},
                  !.scheduledSinceReset = @ + 1,
                  !.recoveryTimer = id]

\* es.close(): a closed EventSource dispatches no further event
CloseTransport(w, h) == [w EXCEPT !.transports = {e \in @ : e.id # h}]

\* new EventSource(url): a transport in readyState CONNECTING
NewTransport(w) ==
    LET id == FreshId(TransportIds(w) \cup {w.eventSource})
    IN  [w EXCEPT !.transports = @ \cup {[id |-> id, ready |-> "connecting"]},
                  !.eventSource = id]

\* ------------------------------------------------------------------------
\* Private methods of the engine
\* ------------------------------------------------------------------------
transition(w, newState) ==
    IF w.state = newState THEN w
    ELSE [w EXCEPT !.state = newState,
                   !.stateCalls = Append(@, [from |-> w.state, to |-> newState,
                                             listeners |-> w.stateListeners])]

\* variant: teardown that forgets the timer handle without clearing it
teardown_KeepsTimer(w) ==
    LET w1 == [w EXCEPT !.recoveryTimer = Null]
    IN  IF w1.eventSource # Null
        THEN [CloseTransport(w1, w1.eventSource) EXCEPT !.eventSource = Null]
        ELSE w1

teardown(w) ==
    LET w1 == IF w.recoveryTimer # Null
              THEN [ClearTimeout(w, w.recoveryTimer) EXCEPT !.recoveryTimer = Null]
              ELSE w
    IN  IF w1.eventSource # Null
        THEN [CloseTransport(w1, w1.eventSource) EXCEPT !.eventSource = Null]
        ELSE w1

\* variant: the budget test written with > instead of >=
scheduleRecovery_OffByOne(w) ==
    IF w.recoveryAttempts > MaxRecoveryAttempts
    THEN transition(w, "dead")
    ELSE LET w1 == transition(w, "recovering")
             w2 == [w1 EXCEPT !.recoveryAttempts = @ + 1]
             delay == GenValue(w2.backoffGenerator)
             w3 == [w2 EXCEPT !.backoffGenerator = GenAdvance(@)]
         IN  SetTimeout(w3, delay)

scheduleRecovery(w) ==
    IF w.recoveryAttempts >= MaxRecoveryAttempts
    THEN transition(w, "dead")
    ELSE LET w1 == transition(w, "recovering")
             w2 == [w1 EXCEPT !.recoveryAttempts = @ + 1]
             delay == GenValue(w2.backoffGenerator)
             w3 == [w2 EXCEPT !.backoffGenerator = GenAdvance(@)]
         IN  SetTimeout(w3, delay)

establish(w) ==
    IF w.endpoint = "" THEN w
    ELSE LET w1 == transition(w, "connecting")
         IN  IF ConstructorThrows(w1.endpoint)
             THEN scheduleRecovery(w1)
             ELSE NewTransport(w1)

\* ------------------------------------------------------------------------
\* Public API
\* ------------------------------------------------------------------------
\* variant: connect() that keeps the kinematics window
connect_KeepsWindow(w, url) ==
    IF w.endpoint = url /\ w.state = "live" THEN w
    ELSE LET w1 == teardown(w)
             w2 == [w1 EXCEPT !.endpoint = url,
                              !.frameSequence = 0,
                              !.backoffGenerator = fibonacciMs,
                              !.recoveryAttempts = 0,
                              !.scheduledSinceReset = 0,
                              !.lastSeqOut = 0,
                              !.reopened = FALSE,
                              !.derivedCount = 0]
         IN  establish(w2)

\* variant: connect() without the same-endpoint test
connect_NoShortCircuit(w, url) ==
    LET w1 == teardown(w)
        w2 == [w1 EXCEPT !.endpoint = url,
                         !.frameSequence = 0,
                         !.positionHistory = <<>>,
                         !.backoffGenerator = fibonacciMs,
                         !.recoveryAttempts = 0,
                         !.scheduledSinceReset = 0,
                         !.lastSeqOut = 0,
                         !.reopened = FALSE,
                         !.derivedCount = 0]
    IN  establish(w2)

connect(w, url) ==
    IF w.endpoint = url /\ w.state = "live" THEN w
    ELSE LET w1 == teardown(w)
             w2 == [w1 EXCEPT !.endpoint = url,
                              !.frameSequence = 0,
                              !.positionHistory = <<>>,
                              !.backoffGenerator = fibonacciMs,
                              !.recoveryAttempts = 0,
                              !.scheduledSinceReset = 0,
                              !.lastSeqOut = 0,
                              !.reopened = FALSE,
                              !.derivedCount = 0]
         IN  establish(w2)

\* variant: disconnect() that only changes the state
disconnect_NoTeardown(w) == transition(w, "idle")

disconnect(w) == transition(teardown(w), "idle")

\* variant: pause() without the state test
pause_Unguarded(w) == transition(w, "paused")

pause(w) == IF w.state = "live" THEN transition(w, "paused") ELSE w

\* variant: resume() without the state test
resume_Unguarded(w) == transition(w, "live")

resume(w) == IF w.state = "paused" THEN transition(w, "live") ELSE w

subscribe(w, l) == [w EXCEPT !.frameListeners = @ \cup {l}]

\* the function subscribe() returns
unsubscribe(w, l) == [w EXCEPT !.frameListeners = @ \ {l}]

\* listener(this.state) is logged as a call that changes nothing
onStateChange(w, l) ==
    [w EXCEPT !.stateListeners = @ \cup {l},
              !.stateCalls = Append(@, [from |-> w.state, to |-> w.state,
                                        listeners |-> {l}])]

\* the function onStateChange() returns
offStateChange(w, l) == [w EXCEPT !.stateListeners = @ \ {l}]

\* variant: onopen that resets the attempt count but keeps the generator
onopen_KeepsBackoff(w, id) ==
    LET w1 == [w EXCEPT !.transports =
                   {IF e.id = id THEN [e EXCEPT !.ready = "open"] ELSE e : e \in @},
                        !.recoveryAttempts = 0,
                        !.scheduledSinceReset = 0,
                        !.reopened = (w.lastSeqOut > 0)]
    IN  transition(w1, "live")

\* eventSource.onopen
onopen(w, id) ==
    LET w1 == [w EXCEPT !.transports =
                   {IF e.id = id THEN [e EXCEPT !.ready = "open"] ELSE e : e \in @},
                        !.recoveryAttempts = 0,
                        !.backoffGenerator = fibonacciMs,
                        !.scheduledSinceReset = 0,
                        !.reopened = (w.lastSeqOut > 0)]
    IN  transition(w1, "live")

\* variant: onerror that drops the handle without closing the transport
onerror_NoClose(w) == scheduleRecovery([w EXCEPT !.eventSource = Null])

\* eventSource.onerror: closes whatever this.eventSource holds
onerror(w) ==
    LET w1 == IF w.eventSource # Null THEN CloseTransport(w, w.eventSource) ELSE w
        w2 == [w1 EXCEPT !.eventSource = Null]
    IN  scheduleRecovery(w2)

\* the setTimeout callback of scheduleRecovery
ontimeout(w, id) == establish([w EXCEPT !.timers = {t \in @ : t.id # id}])

\* ------------------------------------------------------------------------
\* JavaScript values met by the normalizer.  A scalar is tagged with its
\* type; n is its number (ty = "num"), s its text (ty = "str").
\* Quantities are whole numbers: times in ms, speeds in km/h or m/s as the
\* wire format has them, accelerations in thousandths of g.
\* ------------------------------------------------------------------------
Undefined == [ty |-> "undefined", n |-> 0, s |-> ""]
NullV == [ty |-> "null", n |-> 0, s |-> ""]
NaN == [ty |-> "nan", n |-> 0, s |-> ""]
Num(n) == [ty |-> "num", n |-> n, s |-> ""]
Str(s) == [ty |-> "str", n |-> 0, s |-> s]

\* typeof v === 'number' (NaN is a number)
IsNumberType(v) == v.ty \in {"num", "nan"}

\* ISO timestamps known to the model and the epoch ms Date parses them to
IsoDates == [x \in {"1970-01-01T00:00:01.000Z", "1970-01-01T00:00:01.100Z",
                    "1970-01-01T00:00:01.200Z"} |->
             CASE x = "1970-01-01T00:00:01.000Z" -> 1000
               [] x = "1970-01-01T00:00:01.100Z" -> 1100
               [] x = "1970-01-01T00:00:01.200Z" -> 1200]

\* numeric strings known to the model
NumericStrings == [x \in {"", "1", "37"} |->
                   CASE x = "" -> 0 [] x = "1" -> 1 [] x = "37" -> 37]

\* Number(v): the coercion behind isNaN(), <, * and -
ToNumber(v) ==
    CASE v.ty = "num" -> v
      [] v.ty = "null" -> Num(0)
      [] v.ty = "str" -> IF v.s \in DOMAIN NumericStrings
                         THEN Num(NumericStrings[v.s]) ELSE NaN
      [] OTHER -> NaN

\* global isNaN(v)
isNaN(v) == ToNumber(v).ty = "nan"

\* new Date(s).getTime() for a string s
DateGetTime(v) ==
    IF v.ty = "str" /\ v.s \in DOMAIN IsoDates THEN Num(IsoDates[v.s]) ELSE NaN

\* a ?? b
Coalesce(a, b) == IF a.ty \in {"undefined", "null"} THEN b ELSE a

\* a || b
Falsy(v) ==
    \/ v.ty \in {"undefined", "null", "nan"}
    \/ v.ty = "num" /\ v.n = 0
    \/ v.ty = "str" /\ v.s = ""
OrElse(a, b) == IF Falsy(a) THEN b ELSE a

\* a < b, a > b, a <= b on coerced numbers: false when either side is NaN
Lt(a, b) == LET x == ToNumber(a) y == ToNumber(b)
            IN x.ty = "num" /\ y.ty = "num" /\ x.n < y.n
Gt(a, b) == Lt(b, a)
Le(a, b) == LET x == ToNumber(a) y == ToNumber(b)
            IN x.ty = "num" /\ y.ty = "num" /\ x.n <= y.n

\* a - b
Sub(a, b) == LET x == ToNumber(a) y == ToNumber(b)
             IN IF x.ty = "num" /\ y.ty = "num" THEN Num(x.n - y.n) ELSE NaN

\* integer quotient rounded toward zero
Quot(p, q) == IF p >= 0 THEN p \div q ELSE -((-p) \div q)

\* v * 3.6 (m/s to km/h), to the whole km/h
Times3p6(v) == LET x == ToNumber(v)
               IN IF x.ty = "num" THEN Num(Quot(x.n * 36, 10)) ELSE NaN

\* Math.min(a, b), Math.max(a, b): NaN when either side is NaN
MathMin(a, b) == LET x == ToNumber(a) y == ToNumber(b)
                 IN IF x.ty = "num" /\ y.ty = "num" THEN Num(Min(x.n, y.n)) ELSE NaN
MathMax(a, b) == LET x == ToNumber(a) y == ToNumber(b)
                 IN IF x.ty = "num" /\ y.ty = "num" THEN Num(Max(x.n, y.n)) ELSE NaN

\* msg.k of a parsed JSON object: undefined when the key is absent
Get(obj, k) == IF k \in DOMAIN obj THEN obj[k] ELSE Undefined

\* msg.k for a key holding a sub-object ({} stands for an absent one where
\* the code writes msg.k ?? {})
SubObj(msg, k) == IF k \in DOMAIN msg.sub THEN msg.sub[k] ELSE <<>>

\* ------------------------------------------------------------------------
\* Kinematics estimator
\* ------------------------------------------------------------------------
\* rolling window capacity
WindowCap == 10
\* samples needed before anything is derived
MinSamples == 3
\* largest elapsed time (ms) between the newest sample and its baseline
MaxDtMs == 2000
\* clamp of the derived accelerations, in thousandths of g
ClampMilliG == 3000

\* variant: the difference is taken as it is
normalizeAngle_Identity(angle) == angle

RECURSIVE normalizeAngle(_)
normalizeAngle(angle) ==
    IF angle > 180 THEN normalizeAngle(angle - 360)
    ELSE IF angle < -180 THEN normalizeAngle(angle + 360)
    ELSE angle

\* Math.max(-3, Math.min(3, g))
Clamp(g) == MathMax(Num(-ClampMilliG), MathMin(Num(ClampMilliG), g))

\* speedDelta / dt / G with speeds in km/h and dt in ms, in thousandths of g
LongitudinalG(currSpeed, prevSpeed, dtMs) ==
    LET d == Sub(currSpeed, prevSpeed)
    IN  IF d.ty # "num" THEN NaN
        ELSE Num(Quot(Quot(d.n * 10000000, 36 * dtMs) * 100, 981))

\* (speedMs * headingRate) / G, in thousandths of g; one degree is taken as
\* 17453 microradians
LateralG(currSpeed, currHeading, prevHeading, dtMs) ==
    LET hd == Sub(currHeading, prevHeading)
        sp == ToNumber(currSpeed)
    IN  IF hd.ty # "num" \/ sp.ty # "num" THEN NaN
        ELSE LET headingDelta == normalizeAngle(hd.n)
                 rateMilliRad == Quot(headingDelta * 17453, dtMs)
                 speedMmS == Quot(sp.n * 10000, 36)
             IN  Num(Quot(speedMmS * rateMilliRad, 9810))

\* variant: the immediately preceding sample as the baseline
deriveGForces_PrevBaseline(w, t, lat, lon, speed, heading) ==
    LET pushed == Append(w.positionHistory,
                         [t |-> t, lat |-> lat, lon |-> lon,
                          speed |-> speed, heading |-> heading])
        hist == IF Len(pushed) > WindowCap THEN Tail(pushed) ELSE pushed
        w1 == [w EXCEPT !.positionHistory = hist]
        zero == [w |-> w1, gLat |-> Num(0), gLong |-> Num(0)]
    IN  IF Len(hist) < MinSamples THEN zero
        ELSE LET curr == hist[Len(hist)]
                 prev == hist[Len(hist) - 1]
                 dt == Sub(curr.t, prev.t)
             IN  IF dt.ty = "num" /\ (dt.n <= 0 \/ dt.n > MaxDtMs) THEN zero
                 ELSE IF dt.ty # "num"
                 THEN [w |-> w1, gLat |-> NaN, gLong |-> NaN]
                 ELSE [w |-> w1,
                       gLat |-> Clamp(LateralG(curr.speed, curr.heading,
                                               prev.heading, dt.n)),
                       gLong |-> Clamp(LongitudinalG(curr.speed, prev.speed, dt.n))]

\* deriveGForces: pushes the sample, returns the window and the two values
deriveGForces(w, t, lat, lon, speed, heading) ==
    LET pushed == Append(w.positionHistory,
                         [t |-> t, lat |-> lat, lon |-> lon,
                          speed |-> speed, heading |-> heading])
        hist == IF Len(pushed) > WindowCap THEN Tail(pushed) ELSE pushed
        w1 == [w EXCEPT !.positionHistory = hist]
        zero == [w |-> w1, gLat |-> Num(0), gLong |-> Num(0)]
    IN  IF Len(hist) < MinSamples THEN zero
        ELSE LET curr == hist[Len(hist)]
                 prev == hist[Len(hist) - 2]
                 dt == Sub(curr.t, prev.t)
             IN  IF dt.ty = "num" /\ (dt.n <= 0 \/ dt.n > MaxDtMs) THEN zero
                 ELSE IF dt.ty # "num"
                 THEN [w |-> w1, gLat |-> NaN, gLong |-> NaN]
                 ELSE [w |-> w1,
                       gLat |-> Clamp(LateralG(curr.speed, curr.heading,
                                               prev.heading, dt.n)),
                       gLong |-> Clamp(LongitudinalG(curr.speed, prev.speed, dt.n))]

\* ------------------------------------------------------------------------
\* Message normalizer
\* ------------------------------------------------------------------------
\* the decoder that is entered is noted in the handler's log
Called(w, decoder) == [w EXCEPT !.decoderCalls = Append(@, decoder)]

NoFrame == [seq |-> 0]

\* variant: seq: this.frameSequence++
buildFrame_PostIncrement(w, data) ==
    [w |-> [w EXCEPT !.frameSequence = @ + 1],
     frame |-> [seq |-> w.frameSequence,
                timestamp |-> data.timestamp, lat |-> data.lat,
                lon |-> data.lon, altitude |-> data.altitude,
                heading |-> data.heading, speedKmh |-> data.speedKmh,
                gLateral |-> data.gLateral,
                gLongitudinal |-> data.gLongitudinal,
                throttlePct |-> data.throttlePct,
                brakePct |-> data.brakePct,
                steeringDeg |-> data.steeringDeg,
                rpm |-> data.rpm, gear |-> data.gear,
                isGpsDerived |-> data.isGpsDerived]]

\* buildFrame: { seq: ++this.frameSequence, ...data }
buildFrame(w, data) ==
    LET w1 == [w EXCEPT !.frameSequence = @ + 1]
    IN  [w |-> w1,
         frame |-> [seq |-> w1.frameSequence,
                    timestamp |-> data.timestamp, lat |-> data.lat,
                    lon |-> data.lon, altitude |-> data.altitude,
                    heading |-> data.heading, speedKmh |-> data.speedKmh,
                    gLateral |-> data.gLateral,
                    gLongitudinal |-> data.gLongitudinal,
                    throttlePct |-> data.throttlePct,
                    brakePct |-> data.brakePct,
                    steeringDeg |-> data.steeringDeg,
                    rpm |-> data.rpm, gear |-> data.gear,
                    isGpsDerived |-> data.isGpsDerived]]

\* Math.min(6, Math.max(1, Math.floor(speedKmh / 40) + 1))
GearOf(speedKmh) ==
    LET x == ToNumber(speedKmh)
    IN  IF x.ty # "num" THEN NaN
        ELSE Num(Min(6, Max(1, (x.n \div 40) + 1)))

fromGPSD(w, msg, now) ==
    IF Lt(Get(msg.top, "mode"), Num(2)) THEN [w |-> w, frame |-> NoFrame]
    ELSE LET lat == Get(msg.top, "lat")
             lon == Get(msg.top, "lon")
             alt == OrElse(Get(msg.top, "alt"), Num(0))
             speedMs == OrElse(Get(msg.top, "speed"), Num(0))
             heading == OrElse(Get(msg.top, "track"), Num(0))
             time == Get(msg.top, "time")
             timestamp == IF time.ty = "str" THEN DateGetTime(time) ELSE Num(now)
             speedKmh == Times3p6(speedMs)
             g == deriveGForces(w, timestamp, lat, lon, speedKmh, heading)
         IN  buildFrame(g.w,
               [timestamp |-> timestamp, lat |-> lat, lon |-> lon,
                altitude |-> alt, heading |-> heading, speedKmh |-> speedKmh,
                gLateral |-> g.gLat, gLongitudinal |-> g.gLong,
                throttlePct |-> IF Gt(speedKmh, Num(10)) /\ Gt(g.gLong, Num(50))
                                THEN MathMin(Num(100), Num(Quot(g.gLong.n * 15, 100)))
                                ELSE Num(0),
                brakePct |-> IF Lt(g.gLong, Num(-300))
                             THEN MathMin(Num(100), Num(Quot(-g.gLong.n, 10)))
                             ELSE Num(0),
                steeringDeg |-> Num(0), rpm |-> Num(0),
                gear |-> GearOf(speedKmh), isGpsDerived |-> TRUE])

fromDirectJSON(w, msg, now) ==
    LET m == msg.top
        lat == Coalesce(Get(m, "lat"), Get(m, "latitude"))
        lon == Coalesce(Get(m, "lon"), Get(m, "longitude"))
    IN  IF isNaN(lat) \/ isNaN(lon) THEN [w |-> w, frame |-> NoFrame]
        ELSE LET time == Get(m, "time")
                 timestamp == IF IsNumberType(time) THEN time ELSE Num(now)
                 speedKmh == Coalesce(Get(m, "speed"),
                                      Coalesce(Get(m, "speedKmh"), Num(0)))
                 heading == Coalesce(Get(m, "track"),
                                     Coalesce(Get(m, "heading"), Num(0)))
                 hasGForces == IsNumberType(Get(m, "gLat"))
                               \/ IsNumberType(Get(m, "latG"))
                 gLat0 == Coalesce(Get(m, "gLat"), Coalesce(Get(m, "latG"),
                              Coalesce(Get(m, "gForceLat"), Num(0))))
                 gLong0 == Coalesce(Get(m, "gLong"), Coalesce(Get(m, "longG"),
                              Coalesce(Get(m, "gForceLong"), Num(0))))
                 g == IF hasGForces
                      THEN [w |-> w, gLat |-> gLat0, gLong |-> gLong0]
                      ELSE deriveGForces(w, timestamp, lat, lon, speedKmh, heading)
             IN  buildFrame(g.w,
                   [timestamp |-> timestamp, lat |-> lat, lon |-> lon,
                    altitude |-> Coalesce(Get(m, "alt"),
                                          Coalesce(Get(m, "altitude"), Num(0))),
                    heading |-> heading, speedKmh |-> speedKmh,
                    gLateral |-> g.gLat, gLongitudinal |-> g.gLong,
                    throttlePct |-> Coalesce(Get(m, "throttle"),
                                       Coalesce(Get(m, "throttlePct"), Num(0))),
                    brakePct |-> Coalesce(Get(m, "brake"),
                                    Coalesce(Get(m, "brakePct"),
                                       Coalesce(Get(m, "brakePos"), Num(0)))),
                    steeringDeg |-> Coalesce(Get(m, "steering"),
                                       Coalesce(Get(m, "steeringDeg"), Num(0))),
                    rpm |-> Coalesce(Get(m, "rpm"), Num(0)),
                    gear |-> Coalesce(Get(m, "gear"), Num(0)),
                    isGpsDerived |-> ~hasGForces])

fromVBOXJSON(w, msg, now) ==
    LET gps == SubObj(msg, "gps")
        dynamics == SubObj(msg, "dynamics")
        inputs == SubObj(msg, "inputs")
        engine == SubObj(msg, "engine")
    IN  buildFrame(w,
          [timestamp |-> Coalesce(Get(msg.top, "timestamp"), Num(now)),
           lat |-> Get(gps, "lat"), lon |-> Get(gps, "lon"),
           altitude |-> Coalesce(Get(gps, "alt"), Num(0)),
           heading |-> Coalesce(Get(gps, "heading"), Num(0)),
           speedKmh |-> Coalesce(Get(dynamics, "speed"), Num(0)),
           gLateral |-> Coalesce(Get(dynamics, "gLat"), Num(0)),
           gLongitudinal |-> Coalesce(Get(dynamics, "gLong"), Num(0)),
           throttlePct |-> Coalesce(Get(inputs, "throttle"), Num(0)),
           brakePct |-> Coalesce(Get(inputs, "brake"), Num(0)),
           steeringDeg |-> Coalesce(Get(inputs, "steering"), Num(0)),
           rpm |-> Coalesce(Get(engine, "rpm"), Num(0)),
           gear |-> Coalesce(Get(engine, "gear"), Num(0)),
           isGpsDerived |-> FALSE])

parseMessage(w, msg, now) ==
    IF Get(msg.top, "class") = Str("TPV")
    THEN fromGPSD(Called(w, "fromGPSD"), msg, now)
    ELSE IF IsNumberType(Get(msg.top, "lat")) /\ IsNumberType(Get(msg.top, "lon"))
    THEN fromDirectJSON(Called(w, "fromDirectJSON"), msg, now)
    ELSE IF "gps" \in DOMAIN msg.sub
    THEN fromVBOXJSON(Called(w, "fromVBOXJSON"), msg, now)
    ELSE [w |-> w, frame |-> NoFrame]

\* parseCSV: a part of the split line is given by what new Date(part).getTime()
\* (date) and parseFloat(part) (float) make of it
parseCSV(w, parts) ==
    IF Len(parts) < 8 THEN [w |-> w, frame |-> NoFrame]
    ELSE LET timestamp == parts[1].date
         IN  IF isNaN(timestamp) THEN [w |-> w, frame |-> NoFrame]
             ELSE LET lat == parts[2].float
                      lon == parts[3].float
                      alt == parts[4].float
                      speedMs == parts[5].float
                      heading == parts[7].float
                  IN  IF isNaN(lat) \/ isNaN(lon) THEN [w |-> w, frame |-> NoFrame]
                      ELSE LET speedKmh == Times3p6(speedMs)
                               g == deriveGForces(w, timestamp, lat, lon,
                                                  speedKmh, heading)
                           IN  buildFrame(g.w,
                                 [timestamp |-> timestamp, lat |-> lat, lon |-> lon,
                                  altitude |-> alt, heading |-> heading,
                                  speedKmh |-> speedKmh,
                                  gLateral |-> g.gLat, gLongitudinal |-> g.gLong,
                                  throttlePct |-> Num(0), brakePct |-> Num(0),
                                  steeringDeg |-> Num(0), rpm |-> Num(0),
                                  gear |-> Num(0), isGpsDerived |-> TRUE])

\* this.frameListeners.forEach(fn => fn(frame))
Forward(r) ==
    IF r.frame = NoFrame THEN r.w
    ELSE [r.w EXCEPT !.frameCalls = Append(@, [listeners |-> r.w.frameListeners,
                                               frame |-> r.frame,
                                               afterReopen |-> r.w.reopened,
                                               derivedBefore |-> r.w.derivedCount]),
                     !.lastSeqOut = r.frame.seq,
                     !.reopened = FALSE,
                     !.derivedCount = IF r.frame.isGpsDerived THEN @ + 1 ELSE @]

\* variant: a message that decodes to nothing is handled as a transport error
ingest_ParseErrorRecovers(w, raw, now) ==
    LET r == IF raw.json = "object" THEN parseMessage(w, raw, now)
             ELSE parseCSV(Called(w, "parseCSV"), raw.parts)
    IN  IF r.frame = NoFrame THEN onerror(r.w) ELSE Forward(r)

\* ingest(raw): raw.json tells what JSON.parse makes of the text: an object
\* (raw.top, raw.sub), the value null (reading msg.class throws), or a
\* SyntaxError; the last two fall through to parseCSV(raw) on raw.parts
ingest(w, raw, now) ==
    IF raw.json = "object" THEN Forward(parseMessage(w, raw, now))
    ELSE Forward(parseCSV(Called(w, "parseCSV"), raw.parts))

\* variant: onmessage without the paused test
onmessage_IgnoresPause(w, raw, now) == ingest(w, raw, now)

\* eventSource.onmessage
onmessage(w, raw, now) ==
    IF w.state = "paused" THEN w ELSE ingest(w, raw, now)

\* ------------------------------------------------------------------------
\* Messages the transport delivers
\* ------------------------------------------------------------------------
EmptyObj == [k \in {} |-> Undefined]

JsonObject(top, sub) == [json |-> "object", top |-> top, sub |-> sub, parts |-> <<>>]

\* a part of a delimited line: its Date reading and its parseFloat reading
Part(date, float) == [date |-> date, float |-> float]

TextLine(parts) == [json |-> "invalid", top |-> EmptyObj, sub |-> EmptyObj,
                    parts |-> parts]

\* {"class":"TPV","mode":3,"lat":37,"lon":-122,"speed":10,"track":90,"time":...}
MsgTPV(mode, speed, track, time) ==
    JsonObject([class |-> Str("TPV"), mode |-> Num(mode), lat |-> Num(37),
                lon |-> Num(-122), speed |-> Num(speed), track |-> Num(track),
                time |-> Str(time)], EmptyObj)

\* {"lat":37,"lon":-122,"speed":72,"heading":10,"time":1200}
MsgFlat(speed, heading, time) ==
    JsonObject([lat |-> Num(37), lon |-> Num(-122), speed |-> Num(speed),
                heading |-> Num(heading), time |-> Num(time)], EmptyObj)

\* the headings of the samples of a car that turns, in degrees
Headings == {0, 10, 100, 180, 190, 270, 350, 359}

\* the time between two samples, in ms
SamplePeriod == 500

\* {"lat":37,"lon":-122,"speed":72,"gLat":500,"gLong":-200,"rpm":7000}
MsgFlatG ==
    JsonObject([lat |-> Num(37), lon |-> Num(-122), speed |-> Num(72),
                gLat |-> Num(500), gLong |-> Num(-200), rpm |-> Num(7000)],
               EmptyObj)

\* {"timestamp":1300,"gps":{"lat":37,"lon":-122},"dynamics":{"speed":80}}
MsgNested ==
    JsonObject([timestamp |-> Num(1300)],
               [gps |-> [lat |-> Num(37), lon |-> Num(-122)],
                dynamics |-> [speed |-> Num(80)]])

\* 1970-01-01T00:00:01.100Z,37,-122,12,20,0,10,3
MsgCSV ==
    TextLine(<<Part(Num(1100), Num(1970)), Part(NaN, Num(37)),
               Part(NaN, Num(-122)), Part(NaN, Num(12)), Part(NaN, Num(20)),
               Part(NaN, Num(0)), Part(NaN, Num(10)), Part(NaN, Num(3))>>)

\* {"status":"ok"}
MsgUnknown == JsonObject([status |-> Str("ok")], EmptyObj)

\* hello
MsgGarbage == TextLine(<<Part(NaN, NaN)>>)

\* null
MsgJsonNull == [json |-> "null", top |-> EmptyObj, sub |-> EmptyObj,
                parts |-> <<Part(NaN, NaN)>>]

\* the messages the connection model draws from: one of each wire format,
\* the three that feed the kinematics window carrying the same sample
\* (20 m/s = 72 km/h, heading 10, t = 1100), and one that decodes to nothing
Messages ==
    {MsgTPV(3, 20, 10, "1970-01-01T00:00:01.100Z"),
     MsgFlat(72, 10, 1100), MsgNested, MsgCSV, MsgGarbage}

\* {"class":"TPV","lat":37,"lon":-122,"speed":20,"track":10,"time":...}
MsgTPVNoMode ==
    JsonObject([class |-> Str("TPV"), lat |-> Num(37), lon |-> Num(-122),
                speed |-> Num(20), track |-> Num(10),
                time |-> Str("1970-01-01T00:00:01.100Z")], EmptyObj)

\* {"class":"TPV","mode":3,"speed":20,"track":10,"time":...}
MsgTPVNoPosition ==
    JsonObject([class |-> Str("TPV"), mode |-> Num(3), speed |-> Num(20),
                track |-> Num(10),
                time |-> Str("1970-01-01T00:00:01.100Z")], EmptyObj)

\* {"class":"TPV","mode":1,"lat":37,"lon":-122,"gps":{"lat":37,"lon":-122}}
MsgTPVNoFixRich ==
    JsonObject([class |-> Str("TPV"), mode |-> Num(1), lat |-> Num(37),
                lon |-> Num(-122)],
               [gps |-> [lat |-> Num(37), lon |-> Num(-122)]])

\* {"latitude":37,"longitude":-122,"speed":72,"heading":10,"time":1100}
MsgFlatAlias ==
    JsonObject([latitude |-> Num(37), longitude |-> Num(-122),
                speed |-> Num(72), heading |-> Num(10), time |-> Num(1100)],
               EmptyObj)

\* {"lat":37,"lon":-122,"speed":72,"heading":10,"time":1100,"gLong":-200}
MsgFlatLongOnly ==
    JsonObject([lat |-> Num(37), lon |-> Num(-122), speed |-> Num(72),
                heading |-> Num(10), time |-> Num(1100), gLong |-> Num(-200)],
               EmptyObj)

\* {"lat":"37","lon":"-122","speed":72}
MsgFlatStringLat ==
    JsonObject([lat |-> Str("37"), lon |-> Str("-122"), speed |-> Num(72)],
               EmptyObj)

\* {"lat":37,"lon":-122,"speed":72,"heading":10,"time":1100,"gps":{"lat":1,"lon":2}}
MsgFlatWithGps ==
    JsonObject([lat |-> Num(37), lon |-> Num(-122), speed |-> Num(72),
                heading |-> Num(10), time |-> Num(1100)],
               [gps |-> [lat |-> Num(1), lon |-> Num(2)]])

\* {"gps":{"alt":12},"dynamics":{"speed":80}}
MsgNestedNoPosition ==
    JsonObject(EmptyObj, [gps |-> [alt |-> Num(12)],
                          dynamics |-> [speed |-> Num(80)]])

\* 1970-01-01T00:00:01.100Z,n/a,n/a,12,20,0,10,3
MsgCSVBadPosition ==
    TextLine(<<Part(Num(1100), Num(1970)), Part(NaN, NaN),
               Part(NaN, NaN), Part(NaN, Num(12)), Part(NaN, Num(20)),
               Part(NaN, Num(0)), Part(NaN, Num(10)), Part(NaN, Num(3))>>)

\* the messages the decoders are exercised on: every wire format, well
\* formed and not, and flat samples that differ in time, speed and heading
DecodeMessages ==
    {MsgFlat(36, 350, 1000), MsgFlat(72, 10, 1100), MsgFlat(90, 10, 1200),
     MsgFlat(72, 10, 3050),
     MsgTPV(3, 20, 10, "1970-01-01T00:00:01.100Z"),
     MsgTPV(1, 20, 10, "1970-01-01T00:00:01.100Z"),
     MsgTPVNoMode, MsgTPVNoPosition, MsgTPVNoFixRich,
     MsgFlatG, MsgFlatAlias, MsgFlatLongOnly, MsgFlatStringLat, MsgFlatWithGps,
     MsgNested, MsgNestedNoPosition,
     MsgCSV, MsgCSVBadPosition,
     MsgUnknown, MsgGarbage, MsgJsonNull}

\* Date.now() readings
Clock == {1250}

\* ------------------------------------------------------------------------
\* Shadow-Line Engine (ShadowLineEngineCore)
\*
\* Units: a coordinate is counted in the angle that spans one metre of the
\* Earth's surface, a distance in metres, a time in milliseconds (lapTime,
\* elapsedTime, the sector times and the deltas too: the code's seconds
\* times 1000), a lateral acceleration in thousandths of g.
\* ------------------------------------------------------------------------

\* this.startFinishRadius = config.startFinishRadius ?? 25
DefaultRadius == 25

\* this.minLapTime = config.minLapTime ?? 30
DefaultMinLapTime == 30

\* this.crossingCooldown = 50
CooldownFrames == 50

\* echo trails keep the last 100 points
EchoCap == 100

Abs(n) == IF n < 0 THEN -n ELSE n

\* variant: the signed difference
haversineDistance_Signed(lat1, lon1, lat2, lon2) ==
    IF lon1 = lon2 THEN lat2 - lat1 ELSE lon2 - lon1

\* haversineDistance, for two points of which one coordinate agrees and
\* the other is on the equator or on one meridian: the great-circle
\* distance is then the difference of the other coordinate
haversineDistance(lat1, lon1, lat2, lon2) ==
    IF lon1 = lon2 THEN Abs(lat2 - lat1) ELSE Abs(lon2 - lon1)

\* the state of a freshly built or reset engine, for n sectors
Zeros(n) == [i \in 1..n |-> 0]

EmptyShadowState(n) ==
    [currentLapId |-> NullV, shadowLapId |-> NullV, distanceInLap |-> 0,
     currentDelta |-> 0, sectorDeltas |-> Zeros(n),
     shadowPosition |-> NullV,
     echoTrail |-> [user |-> <<>>, shadow |-> <<>>]]

\* `lap_${Date.now()}_${lapNumber}` and 'shadow_optimal'
LapId(now, lapNumber) == [kind |-> "lap", now |-> now, n |-> lapNumber]
ShadowOptimalId == [kind |-> "shadow_optimal", now |-> 0, n |-> 0]

\* the engine a method runs on: its fields and the log of the listener
\* calls the method made
ShadowWorld ==
    [startFinishLine |-> startFinishLine,
     startFinishRadius |-> startFinishRadius,
     minLapTime |-> minLapTime,
     sectorBoundaries |-> sectorBoundaries,
     trackLength |-> trackLength,
     completedLaps |-> completedLaps,
     currentLap |-> currentLap,
     shadowLap |-> shadowLap,
     shadowState |-> shadowState,
     shadowListeners |-> shadowListeners,
     lapCompleteListeners |-> lapCompleteListeners,
     lastFrame |-> lastFrame,
     crossingCooldown |-> crossingCooldown,
     emitCalls |-> <<>>,
     lapCompleteCalls |-> <<>>,
     lapCompleteEvents |-> lapCompleteEvents,
     returned |-> NullV]

ShadowCommit(s, op) ==
    /\ startFinishLine' = s.startFinishLine
    /\ startFinishRadius' = s.startFinishRadius
    /\ minLapTime' = s.minLapTime
    /\ sectorBoundaries' = s.sectorBoundaries
    /\ trackLength' = s.trackLength
    /\ completedLaps' = s.completedLaps
    /\ currentLap' = s.currentLap
    /\ shadowLap' = s.shadowLap
    /\ shadowState' = s.shadowState
    /\ shadowListeners' = s.shadowListeners
    /\ lapCompleteListeners' = s.lapCompleteListeners
    /\ lastFrame' = s.lastFrame
    /\ crossingCooldown' = s.crossingCooldown
    /\ emitCalls' = s.emitCalls
    /\ lapCompleteCalls' = s.lapCompleteCalls
    /\ lapCompleteEvents' = s.lapCompleteEvents
    /\ shadowOp' = op

\* this.shadowListeners.forEach(fn => fn(this.state)): the listeners are
\* handed the engine's own state object, not a copy of it (byReference);
\* state is the value the object has at the call
emitState(s) ==
    [s EXCEPT !.emitCalls = Append(@, [listeners |-> s.shadowListeners,
                                       state |-> s.shadowState,
                                       byReference |-> TRUE])]

\* variant: configuring anew drops the shadow lap
configure_DropsShadow(s, config) ==
    [s EXCEPT !.startFinishLine = config.startFinishLine,
              !.startFinishRadius =
                  Coalesce(config.startFinishRadius, Num(DefaultRadius)).n,
              !.minLapTime =
                  Coalesce(config.minLapTime, Num(DefaultMinLapTime)).n,
              !.sectorBoundaries = config.sectors,
              !.trackLength = config.trackLength,
              !.shadowLap = NullV,
              !.shadowState.sectorDeltas = Zeros(Len(config.sectors))]

\* configure(config); radius and minLapTime may be left out
configure(s, config) ==
    [s EXCEPT !.startFinishLine = config.startFinishLine,
              !.startFinishRadius =
                  Coalesce(config.startFinishRadius, Num(DefaultRadius)).n,
              !.minLapTime =
                  Coalesce(config.minLapTime, Num(DefaultMinLapTime)).n,
              !.sectorBoundaries = config.sectors,
              !.trackLength = config.trackLength,
              !.shadowState.sectorDeltas = Zeros(Len(config.sectors))]

\* subscribe(listener): the listener is called with this.state itself
shadowSubscribe(s, l) ==
    [s EXCEPT !.shadowListeners = @ \cup {l},
              !.emitCalls = Append(@, [listeners |-> {l},
                                       state |-> s.shadowState,
                                       byReference |-> TRUE])]

onLapComplete(s, l) == [s EXCEPT !.lapCompleteListeners = @ \cup {l}]

\* variant: the crossing cooldown survives
reset_KeepsCooldown(s) ==
    emitState([s EXCEPT !.completedLaps = <<>>,
                        !.currentLap = NullV,
                        !.shadowLap = NullV,
                        !.lastFrame = NullV,
                        !.shadowState =
                            EmptyShadowState(Len(s.sectorBoundaries)),
                        !.lapCompleteEvents = 0])

\* reset(): this.state is replaced by a new object, which is then emitted
reset(s) ==
    emitState([s EXCEPT !.completedLaps = <<>>,
                        !.currentLap = NullV,
                        !.shadowLap = NullV,
                        !.lastFrame = NullV,
                        !.crossingCooldown = 0,
                        !.shadowState =
                            EmptyShadowState(Len(s.sectorBoundaries)),
                        !.lapCompleteEvents = 0])

\* getShadowLap()
getShadowLap(s) == s.shadowLap

\* the first lap of the history with the id: completedLaps.find(...)
FindLap(laps, lapId) ==
    LET found == {k \in 1..Len(laps) : laps[k].id = lapId}
    IN  IF found = {} THEN 0
        ELSE CHOOSE k \in found : \A j \in found : k <= j

\* variant: the listeners are called also when the id is unknown
setShadowLap_EmitsAlways(s, lapId) ==
    LET k == FindLap(s.completedLaps, lapId)
    IN  IF k # 0
        THEN emitState([s EXCEPT
                 !.shadowLap = s.completedLaps[k],
                 !.shadowState.shadowLapId = s.completedLaps[k].id,
                 !.returned = TRUE])
        ELSE emitState([s EXCEPT !.returned = FALSE])

\* setShadowLap(lapId); returned is the method's result
setShadowLap(s, lapId) ==
    LET k == FindLap(s.completedLaps, lapId)
    IN  IF k # 0
        THEN emitState([s EXCEPT
                 !.shadowLap = s.completedLaps[k],
                 !.shadowState.shadowLapId = s.completedLaps[k].id,
                 !.returned = TRUE])
        ELSE [s EXCEPT !.returned = FALSE]

\* getCurrentSector(distance): 0-based, the last sector when none contains it
RECURSIVE SectorFrom(_, _, _)
SectorFrom(bounds, distance, i) ==
    IF i >= Len(bounds) THEN Len(bounds) - 1
    ELSE IF distance >= bounds[i + 1].startDistance
            /\ distance < bounds[i + 1].endDistance
    THEN i
    ELSE SectorFrom(bounds, distance, i + 1)

getCurrentSector(s, distance) == SectorFrom(s.sectorBoundaries, distance, 0)

\* points.find(p => p.distance >= d): its index, 0 when there is none
FirstAtLeast(points, d) ==
    IF \E k \in 1..Len(points) : points[k].distance >= d
    THEN CHOOSE k \in 1..Len(points) :
            /\ points[k].distance >= d
            /\ \A j \in 1..(k - 1) : points[j].distance < d
    ELSE 0

\* calculateSectorTimes(points): the loop from sector i on, with the
\* sector times filled so far and lastSectorEndTime
RECURSIVE SectorTimesFrom(_, _, _, _, _)
SectorTimesFrom(bounds, points, i, times, lastSectorEndTime) ==
    IF i >= Len(bounds) THEN times
    ELSE LET k == FirstAtLeast(points, bounds[i + 1].endDistance)
         IN  IF k = 0
             THEN SectorTimesFrom(bounds, points, i + 1, times,
                                  lastSectorEndTime)
             ELSE SectorTimesFrom(bounds, points, i + 1,
                      [times EXCEPT ![i + 1] =
                           points[k].elapsedTime - lastSectorEndTime],
                      points[k].elapsedTime)

\* variant: every sector is timed from the start of the lap
calculateSectorTimes_FromLapStart(s, points) ==
    [i \in 1..Len(s.sectorBoundaries) |->
        LET k == FirstAtLeast(points, s.sectorBoundaries[i].endDistance)
        IN  IF k = 0 THEN 0 ELSE points[k].elapsedTime]

calculateSectorTimes(s, points) ==
    SectorTimesFrom(s.sectorBoundaries, points, 0,
                    Zeros(Len(s.sectorBoundaries)), 0)

\* the inner loop of synthesizeShadowLap for sector i (0-based): the lap
\* with the smallest positive time from lap k on, given the best so far
\* (bestLap = 0: none yet, bestTime is Infinity)
RECURSIVE BestLapFrom(_, _, _, _)
BestLapFrom(laps, i, k, bestLap) ==
    IF k > Len(laps) THEN bestLap
    ELSE LET defined == i < Len(laps[k].sectorTimes)
             better == /\ defined
                       /\ laps[k].sectorTimes[i + 1] > 0
                       /\ \/ bestLap = 0
                          \/ laps[k].sectorTimes[i + 1]
                                 < laps[bestLap].sectorTimes[i + 1]
         IN  BestLapFrom(laps, i, k + 1, IF better THEN k ELSE bestLap)

\* variant: a sector time of 0 counts as a time
bestSectorLaps_ZeroCounts(s) ==
    [i \in 1..Len(s.sectorBoundaries) |->
        CHOOSE k \in 1..Len(s.completedLaps) :
            \A j \in 1..Len(s.completedLaps) :
                \/ s.completedLaps[k].sectorTimes[i]
                       < s.completedLaps[j].sectorTimes[i]
                \/ /\ s.completedLaps[k].sectorTimes[i]
                          = s.completedLaps[j].sectorTimes[i]
                   /\ k <= j]

\* bestSectorLaps: for each sector the index of its best lap, 0 for null
bestSectorLaps(s) ==
    [i \in 1..Len(s.sectorBoundaries) |->
        BestLapFrom(s.completedLaps, i - 1, 1, 0)]

\* the stitching loop from sector i on
RECURSIVE StitchFrom(_, _, _, _, _)
StitchFrom(s, best, i, optimalPoints, accumulatedTime) ==
    IF i >= Len(s.sectorBoundaries) THEN optimalPoints
    ELSE IF best[i + 1] = 0
    THEN StitchFrom(s, best, i + 1, optimalPoints, accumulatedTime)
    ELSE LET sector == s.sectorBoundaries[i + 1]
             sectorPoints ==
                 SelectSeq(s.completedLaps[best[i + 1]].points,
                           LAMBDA p : /\ p.distance >= sector.startDistance
                                      /\ p.distance < sector.endDistance)
         IN  IF Len(sectorPoints) = 0
             THEN StitchFrom(s, best, i + 1, optimalPoints, accumulatedTime)
             ELSE LET sectorStartTime == sectorPoints[1].elapsedTime
                      shifted ==
                          [k \in 1..Len(sectorPoints) |->
                              [sectorPoints[k] EXCEPT !.elapsedTime =
                                   accumulatedTime + (@ - sectorStartTime)]]
                      sectorDuration ==
                          sectorPoints[Len(sectorPoints)].elapsedTime
                              - sectorStartTime
                  IN  StitchFrom(s, best, i + 1, optimalPoints \o shifted,
                                 accumulatedTime + sectorDuration)

RECURSIVE SumBest(_, _, _)
SumBest(s, best, i) ==
    IF i > Len(best) THEN 0
    ELSE (IF best[i] # 0 THEN s.completedLaps[best[i]].sectorTimes[i] ELSE 0)
             + SumBest(s, best, i + 1)

\* variant: a single lap is stitched like several
synthesizeShadowLap_AlwaysStitch(s) ==
    IF Len(s.completedLaps) = 0 THEN [s EXCEPT !.shadowLap = NullV]
    ELSE LET best == bestSectorLaps(s)
             theoreticalBestTime == SumBest(s, best, 1)
         IN  [s EXCEPT
                !.shadowLap =
                    [id |-> ShadowOptimalId,
                     lapNumber |-> -1,
                     startTime |-> 0,
                     endTime |-> theoreticalBestTime,
                     totalDistance |-> s.trackLength,
                     lapTime |-> theoreticalBestTime,
                     isComplete |-> TRUE,
                     points |-> StitchFrom(s, best, 0, <<>>, 0),
                     sectorTimes |->
                         [i \in 1..Len(best) |->
                             IF best[i] # 0
                             THEN s.completedLaps[best[i]].sectorTimes[i]
                             ELSE 0]],
                !.shadowState.shadowLapId = ShadowOptimalId]

\* variant: the stitched points are kept last sector first
synthesizeShadowLap_LastFirst(s) ==
    IF Len(s.completedLaps) = 0 THEN [s EXCEPT !.shadowLap = NullV]
    ELSE IF Len(s.completedLaps) = 1
    THEN [s EXCEPT !.shadowLap = s.completedLaps[1],
                   !.shadowState.shadowLapId = s.completedLaps[1].id]
    ELSE LET best == bestSectorLaps(s)
             theoreticalBestTime == SumBest(s, best, 1)
             stitched == StitchFrom(s, best, 0, <<>>, 0)
         IN  [s EXCEPT
                !.shadowLap =
                    [id |-> ShadowOptimalId,
                     lapNumber |-> -1,
                     startTime |-> 0,
                     endTime |-> theoreticalBestTime,
                     totalDistance |-> s.trackLength,
                     lapTime |-> theoreticalBestTime,
                     isComplete |-> TRUE,
                     points |->
                         [k \in 1..Len(stitched) |->
                             stitched[Len(stitched) + 1 - k]],
                     sectorTimes |->
                         [i \in 1..Len(best) |->
                             IF best[i] # 0
                             THEN s.completedLaps[best[i]].sectorTimes[i]
                             ELSE 0]],
                !.shadowState.shadowLapId = ShadowOptimalId]

synthesizeShadowLap(s) ==
    IF Len(s.completedLaps) = 0 THEN [s EXCEPT !.shadowLap = NullV]
    ELSE IF Len(s.completedLaps) = 1
    THEN [s EXCEPT !.shadowLap = s.completedLaps[1],
                   !.shadowState.shadowLapId = s.completedLaps[1].id]
    ELSE LET best == bestSectorLaps(s)
             theoreticalBestTime == SumBest(s, best, 1)
         IN  [s EXCEPT
                !.shadowLap =
                    [id |-> ShadowOptimalId,
                     lapNumber |-> -1,
                     startTime |-> 0,
                     endTime |-> theoreticalBestTime,
                     totalDistance |-> s.trackLength,
                     lapTime |-> theoreticalBestTime,
                     isComplete |-> TRUE,
                     points |-> StitchFrom(s, best, 0, <<>>, 0),
                     sectorTimes |->
                         [i \in 1..Len(best) |->
                             IF best[i] # 0
                             THEN s.completedLaps[best[i]].sectorTimes[i]
                             ELSE 0]],
                !.shadowState.shadowLapId = ShadowOptimalId]

\* the binary search of findShadowPointAtDistance, 0-based low and high
RECURSIVE BinarySearch(_, _, _, _)
BinarySearch(points, distance, low, high) ==
    IF low < high
    THEN LET mid == (low + high) \div 2
         IN  IF points[mid + 1].distance < distance
             THEN BinarySearch(points, distance, mid + 1, high)
             ELSE BinarySearch(points, distance, low, mid)
    ELSE low

\* a + (b - a) * ratio for ratio = num / den, rounded down to the unit
Lerp(a, b, num, den) ==
    IF den < 0 THEN a + ((b - a) * (-num)) \div (-den)
    ELSE a + ((b - a) * num) \div den

findShadowPointAtDistance(s, distance) ==
    IF s.shadowLap = NullV THEN NullV
    ELSE IF Len(s.shadowLap.points) = 0 THEN NullV
    ELSE LET points == s.shadowLap.points
             idx == BinarySearch(points, distance, 0, Len(points) - 1)
         IN  IF idx > 0 /\ idx < Len(points)
             THEN LET p1 == points[idx]
                      p2 == points[idx + 1]
                      num == distance - p1.distance
                      den == p2.distance - p1.distance
                  IN  IF p2.distance = p1.distance THEN p1
                      ELSE [distance |-> distance,
                            lat |-> Lerp(p1.lat, p2.lat, num, den),
                            lon |-> Lerp(p1.lon, p2.lon, num, den),
                            speedKmh |->
                                Lerp(p1.speedKmh, p2.speedKmh, num, den),
                            heading |->
                                Lerp(p1.heading, p2.heading, num, den),
                            gLateral |->
                                Lerp(p1.gLateral, p2.gLateral, num, den),
                            elapsedTime |->
                                Lerp(p1.elapsedTime, p2.elapsedTime, num, den),
                            sectorIndex |-> p1.sectorIndex]
             ELSE points[Min(idx, Len(points) - 1) + 1]

\* variant: a crossing closes the lap whatever its time
handleStartFinishCrossing_NoFloor(s, frame, dateNow) ==
    LET now == frame.timestamp
        closes == IF s.currentLap = NullV THEN FALSE
                  ELSE Len(s.currentLap.points) > 0
        s1 == IF closes
              THEN LET completedLap ==
                           [id |-> s.currentLap.id,
                            lapNumber |-> s.currentLap.lapNumber,
                            startTime |-> s.currentLap.startTime,
                            endTime |-> now,
                            totalDistance |-> s.currentLap.accumulatedDistance,
                            lapTime |-> now - s.currentLap.startTime,
                            isComplete |-> TRUE,
                            points |-> s.currentLap.points,
                            sectorTimes |->
                                calculateSectorTimes(s, s.currentLap.points)]
                   IN  synthesizeShadowLap(
                         [s EXCEPT
                            !.completedLaps = Append(@, completedLap),
                            !.lapCompleteCalls =
                                Append(@, [listeners |-> s.lapCompleteListeners,
                                           lap |-> completedLap]),
                            !.lapCompleteEvents = @ + 1])
              ELSE s
        lapNumber == Len(s1.completedLaps) + 1
    IN  [s1 EXCEPT !.currentLap = [id |-> LapId(dateNow, lapNumber),
                                   lapNumber |-> lapNumber,
                                   startTime |-> now,
                                   points |-> <<>>,
                                   accumulatedDistance |-> 0],
                   !.shadowState.distanceInLap = 0,
                   !.shadowState.currentDelta = 0,
                   !.shadowState.sectorDeltas = Zeros(Len(s.sectorBoundaries)),
                   !.shadowState.echoTrail = [user |-> <<>>, shadow |-> <<>>]]

\* handleStartFinishCrossing(frame); dateNow is the reading of Date.now()
handleStartFinishCrossing(s, frame, dateNow) ==
    LET now == frame.timestamp
        closes == IF s.currentLap = NullV THEN FALSE
                  ELSE /\ Len(s.currentLap.points) > 0
                       /\ now - s.currentLap.startTime >= s.minLapTime * 1000
        s1 == IF closes
              THEN LET completedLap ==
                           [id |-> s.currentLap.id,
                            lapNumber |-> s.currentLap.lapNumber,
                            startTime |-> s.currentLap.startTime,
                            endTime |-> now,
                            totalDistance |-> s.currentLap.accumulatedDistance,
                            lapTime |-> now - s.currentLap.startTime,
                            isComplete |-> TRUE,
                            points |-> s.currentLap.points,
                            sectorTimes |->
                                calculateSectorTimes(s, s.currentLap.points)]
                   IN  synthesizeShadowLap(
                         [s EXCEPT
                            !.completedLaps = Append(@, completedLap),
                            !.lapCompleteCalls =
                                Append(@, [listeners |-> s.lapCompleteListeners,
                                           lap |-> completedLap]),
                            !.lapCompleteEvents = @ + 1])
              ELSE s
        lapNumber == Len(s1.completedLaps) + 1
    IN  [s1 EXCEPT !.currentLap = [id |-> LapId(dateNow, lapNumber),
                                   lapNumber |-> lapNumber,
                                   startTime |-> now,
                                   points |-> <<>>,
                                   accumulatedDistance |-> 0],
                   !.shadowState.distanceInLap = 0,
                   !.shadowState.currentDelta = 0,
                   !.shadowState.sectorDeltas = Zeros(Len(s.sectorBoundaries)),
                   !.shadowState.echoTrail = [user |-> <<>>, shadow |-> <<>>]]

\* push with the cap of the echo trails
PushCapped(trail, p) ==
    IF Len(trail) + 1 > EchoCap THEN Tail(Append(trail, p))
    ELSE Append(trail, p)

\* variant: the delta is written to every sector
UpdateCurrentLap_AllSectors(s, frame, distanceDelta) ==
    LET acc == s.currentLap.accumulatedDistance + distanceDelta
        currentSector == getCurrentSector(s, acc)
        elapsedTime == frame.timestamp - s.currentLap.startTime
        point == [distance |-> acc, lat |-> frame.lat, lon |-> frame.lon,
                  speedKmh |-> frame.speedKmh, heading |-> frame.heading,
                  gLateral |-> frame.gLateral, elapsedTime |-> elapsedTime,
                  sectorIndex |-> currentSector]
        s1 == [s EXCEPT !.currentLap.accumulatedDistance = acc,
                        !.currentLap.points = Append(@, point),
                        !.shadowState.currentLapId = s.currentLap.id,
                        !.shadowState.distanceInLap = acc]
        shadowPoint == findShadowPointAtDistance(s1, acc)
        delta == elapsedTime - shadowPoint.elapsedTime
        s2 == IF s1.shadowLap = NullV THEN s1
              ELSE IF shadowPoint = NullV
              THEN [s1 EXCEPT !.shadowState.shadowPosition = NullV,
                              !.shadowState.echoTrail.user =
                                  PushCapped(@, point)]
              ELSE [s1 EXCEPT
                      !.shadowState.shadowPosition = shadowPoint,
                      !.shadowState.currentDelta = delta,
                      !.shadowState.sectorDeltas =
                          [k \in 1..Len(@) |-> delta],
                      !.shadowState.echoTrail.user = PushCapped(@, point),
                      !.shadowState.echoTrail.shadow =
                          PushCapped(@, shadowPoint)]
    IN  emitState(s2)

\* ingest, lines 460-514: the frame is recorded on the lap in progress
UpdateCurrentLap(s, frame, distanceDelta) ==
    LET acc == s.currentLap.accumulatedDistance + distanceDelta
        currentSector == getCurrentSector(s, acc)
        elapsedTime == frame.timestamp - s.currentLap.startTime
        point == [distance |-> acc, lat |-> frame.lat, lon |-> frame.lon,
                  speedKmh |-> frame.speedKmh, heading |-> frame.heading,
                  gLateral |-> frame.gLateral, elapsedTime |-> elapsedTime,
                  sectorIndex |-> currentSector]
        s1 == [s EXCEPT !.currentLap.accumulatedDistance = acc,
                        !.currentLap.points = Append(@, point),
                        !.shadowState.currentLapId = s.currentLap.id,
                        !.shadowState.distanceInLap = acc]
        shadowPoint == findShadowPointAtDistance(s1, acc)
        delta == elapsedTime - shadowPoint.elapsedTime
        s2 == IF s1.shadowLap = NullV THEN s1
              ELSE IF shadowPoint = NullV
              THEN [s1 EXCEPT !.shadowState.shadowPosition = NullV,
                              !.shadowState.echoTrail.user =
                                  PushCapped(@, point)]
              ELSE [s1 EXCEPT
                      !.shadowState.shadowPosition = shadowPoint,
                      !.shadowState.currentDelta = delta,
                      !.shadowState.sectorDeltas =
                          IF currentSector >= 0 /\ currentSector < Len(@)
                          THEN [@ EXCEPT ![currentSector + 1] = delta]
                          ELSE @,
                      !.shadowState.echoTrail.user = PushCapped(@, point),
                      !.shadowState.echoTrail.shadow =
                          PushCapped(@, shadowPoint)]
    IN  emitState(s2)

\* variant: the previous-frame position is recorded before the
\* configuration test
ingestFrame_RecordsBeforeGuard(s, frame, dateNow) ==
    IF s.startFinishLine = NullV THEN [s EXCEPT !.lastFrame = frame]
    ELSE LET distanceDelta ==
                 IF s.lastFrame # NullV
                 THEN haversineDistance(s.lastFrame.lat, s.lastFrame.lon,
                                        frame.lat, frame.lon)
                 ELSE 0
             distToStart ==
                 haversineDistance(frame.lat, frame.lon,
                                   s.startFinishLine.lat, s.startFinishLine.lon)
             s1 == IF s.crossingCooldown > 0
                   THEN [s EXCEPT !.crossingCooldown = @ - 1] ELSE s
             isCrossing == /\ distToStart < s1.startFinishRadius
                           /\ s1.crossingCooldown = 0
             s2 == IF isCrossing
                   THEN [handleStartFinishCrossing(s1, frame, dateNow)
                            EXCEPT !.crossingCooldown = CooldownFrames]
                   ELSE s1
             s3 == IF s2.currentLap # NullV
                   THEN UpdateCurrentLap(s2, frame, distanceDelta) ELSE s2
         IN  [s3 EXCEPT !.lastFrame = frame]

\* variant: the cooldown is tested before it is decremented
ingestFrame_TestsBeforeDecrement(s, frame, dateNow) ==
    IF s.startFinishLine = NullV THEN s
    ELSE LET distanceDelta ==
                 IF s.lastFrame # NullV
                 THEN haversineDistance(s.lastFrame.lat, s.lastFrame.lon,
                                        frame.lat, frame.lon)
                 ELSE 0
             distToStart ==
                 haversineDistance(frame.lat, frame.lon,
                                   s.startFinishLine.lat, s.startFinishLine.lon)
             s1 == IF s.crossingCooldown > 0
                   THEN [s EXCEPT !.crossingCooldown = @ - 1] ELSE s
             isCrossing == /\ distToStart < s1.startFinishRadius
                           /\ s.crossingCooldown = 0
             s2 == IF isCrossing
                   THEN [handleStartFinishCrossing(s1, frame, dateNow)
                            EXCEPT !.crossingCooldown = CooldownFrames]
                   ELSE s1
             s3 == IF s2.currentLap # NullV
                   THEN UpdateCurrentLap(s2, frame, distanceDelta) ELSE s2
         IN  [s3 EXCEPT !.lastFrame = frame]

\* ingest(frame)
ingestFrame(s, frame, dateNow) ==
    IF s.startFinishLine = NullV THEN s
    ELSE LET distanceDelta ==
                 IF s.lastFrame # NullV
                 THEN haversineDistance(s.lastFrame.lat, s.lastFrame.lon,
                                        frame.lat, frame.lon)
                 ELSE 0
             distToStart ==
                 haversineDistance(frame.lat, frame.lon,
                                   s.startFinishLine.lat, s.startFinishLine.lon)
             s1 == IF s.crossingCooldown > 0
                   THEN [s EXCEPT !.crossingCooldown = @ - 1] ELSE s
             isCrossing == /\ distToStart < s1.startFinishRadius
                           /\ s1.crossingCooldown = 0
             s2 == IF isCrossing
                   THEN [handleStartFinishCrossing(s1, frame, dateNow)
                            EXCEPT !.crossingCooldown = CooldownFrames]
                   ELSE s1
             s3 == IF s2.currentLap # NullV
                   THEN UpdateCurrentLap(s2, frame, distanceDelta) ELSE s2
         IN  [s3 EXCEPT !.lastFrame = frame]

\* ------------------------------------------------------------------------
\* Actions
\* ------------------------------------------------------------------------
\* what is recorded of the handler that ran: its name, its argument and
\* what was pending when it was entered
NoMessage == TextLine(<<>>)
OpOf(name, url, raw) ==
    [op |-> name, url |-> url, raw |-> raw,
     noop |-> (name = "connect" /\ endpoint = url /\ state = "live"),
     timerWasPending |-> (timers # {}),
     transportWasOpen |-> (transports # {})]
Op(name) == OpOf(name, "", NoMessage)

Connect ==
    /\ ~failing
    /\ \E url \in Urls :
          Commit(connect(World, url), OpOf("connect", url, NoMessage))
    /\ UNCHANGED failing

Disconnect ==
    /\ ~failing
    /\ Commit(disconnect(World), Op("disconnect"))
    /\ UNCHANGED failing

Pause ==
    /\ Commit(pause(World), Op("pause"))
    /\ UNCHANGED failing

Resume ==
    /\ Commit(resume(World), Op("resume"))
    /\ UNCHANGED failing

Open ==
    /\ ~failing
    /\ \E e \in transports :
          /\ e.ready = "connecting"
          /\ Commit(onopen(World, e.id), Op("open"))
    /\ UNCHANGED failing

TransportError ==
    /\ \E e \in transports : Commit(onerror(World), Op("error"))
    /\ UNCHANGED failing

TimerFires ==
    /\ \E t \in timers : Commit(ontimeout(World, t.id), Op("timer"))
    /\ UNCHANGED failing

\* a message event of an open transport
Message ==
    /\ frameSequence < MaxFrames
    /\ \E e \in transports, raw \in Messages, now \in Clock :
          /\ e.ready = "open"
          /\ Commit(onmessage(World, raw, now), OpOf("message", "", raw))
    /\ UNCHANGED failing

\* a message event of an open transport, drawn from the decoder inputs
Decode ==
    /\ frameSequence < MaxDecoded
    /\ \E e \in transports, raw \in DecodeMessages, now \in Clock :
          /\ e.ready = "open"
          /\ Commit(onmessage(World, raw, now), OpOf("message", "", raw))
    /\ UNCHANGED failing

\* a sample of a car at 72 km/h, SamplePeriod after the one before, with
\* any of the headings
DecodeHeading ==
    /\ frameSequence < MaxDecoded
    /\ \E e \in transports, heading \in Headings, now \in Clock :
          LET raw == MsgFlat(72, heading,
                             1000 + SamplePeriod * frameSequence)
          IN  /\ e.ready = "open"
              /\ Commit(onmessage(World, raw, now),
                        OpOf("message", "", raw))
    /\ UNCHANGED failing

Subscribe ==
    /\ \E l \in FrameListenerIds : Commit(subscribe(World, l), Op("subscribe"))
    /\ UNCHANGED failing

Unsubscribe ==
    /\ \E l \in frameListeners : Commit(unsubscribe(World, l), Op("unsubscribe"))
    /\ UNCHANGED failing

OnStateChange ==
    /\ \E l \in StateListenerIds :
          Commit(onStateChange(World, l), Op("onStateChange"))
    /\ UNCHANGED failing

OffStateChange ==
    /\ \E l \in stateListeners :
          Commit(offStateChange(World, l), Op("offStateChange"))
    /\ UNCHANGED failing

\* --- the configurations handed to configure() -----------------------------
OneSector ==
    <<[id |-> 1, name |-> "Lap", startDistance |-> 0, endDistance |-> 1000]>>

TwoSectors ==
    <<[id |-> 1, name |-> "S1", startDistance |-> 0, endDistance |-> 500],
      [id |-> 2, name |-> "S2", startDistance |-> 500, endDistance |-> 1000]>>

\* start/finish at the origin, radius and minimum lap time left to their
\* defaults, a track of 1000 m
Configs ==
    {[startFinishLine |-> [lat |-> 0, lon |-> 0],
      startFinishRadius |-> Undefined,
      minLapTime |-> Undefined,
      sectors |-> sectors,
      trackLength |-> 1000] : sectors \in {OneSector, TwoSectors}}

\* --- the frames handed to ingest(): a car that drives loops ---------------
\* One loop is LoopFrames frames: out along the equator from the
\* start/finish point for half of them, StepMetres per frame, and back.
LoopFrames == 50
StepMetres == 20

\* milliseconds from one frame to the next, chosen once per loop: a loop
\* of 25 s (below the minimum lap time) or of 40 s
Paces == {500, 800}

CarLon(i) == StepMetres * (IF 2 * i <= LoopFrames THEN i ELSE LoopFrames - i)

\* the frame at place i of the loop, at time t, the car driving at pace
FrameAt(i, t, pace) ==
    [timestamp |-> t,
     lat |-> 0,
     lon |-> CarLon(i),
     speedKmh |-> (StepMetres * 3600) \div pace,
     heading |-> IF 2 * i < LoopFrames THEN 90 ELSE 270,
     gLateral |-> IF 2 * i = LoopFrames THEN 1000 ELSE 0]

CarFrame == FrameAt(carIndex, carTime, carPace)

\* --- whole loops ---------------------------------------------------------
\* milliseconds from one frame to the next on the way out and on the way
\* back: loops of 40 s, 45 s and 50 s
LapPaces == {800, 1000}

\* a track whose nominal length the driven line (1000 m) does not reach
LongSectors ==
    <<[id |-> 1, name |-> "S1", startDistance |-> 0, endDistance |-> 500],
      [id |-> 2, name |-> "S2", startDistance |-> 500, endDistance |-> 1200]>>

\* three timed stretches with an untimed one between the first two
GapSectors ==
    <<[id |-> 1, name |-> "S1", startDistance |-> 0, endDistance |-> 300],
      [id |-> 2, name |-> "S2", startDistance |-> 500, endDistance |-> 700],
      [id |-> 3, name |-> "S3", startDistance |-> 700, endDistance |-> 1000]>>

TrackConfigs ==
    Configs \cup
    {[startFinishLine |-> [lat |-> 0, lon |-> 0],
      startFinishRadius |-> Undefined,
      minLapTime |-> Undefined,
      sectors |-> LongSectors,
      trackLength |-> 1200],
     [startFinishLine |-> [lat |-> 0, lon |-> 0],
      startFinishRadius |-> Undefined,
      minLapTime |-> Undefined,
      sectors |-> GapSectors,
      trackLength |-> 1000]}

PaceAt(i, out, back) == IF 2 * i < LoopFrames THEN out ELSE back

\* ingest() called for the frames i, i + 1, ... of one loop, the frame at
\* place i at time t; emitCalls keeps the calls of the last frame only
RECURSIVE DriveFrom(_, _, _, _, _)
DriveFrom(s, i, t, out, back) ==
    IF i = LoopFrames THEN s
    ELSE LET s1 == ingestFrame([s EXCEPT !.emitCalls = <<>>],
                               FrameAt(i, t, PaceAt(i, out, back)), t)
         IN  IF s1.lastFrame.timestamp = t
             THEN DriveFrom(s1, i + 1, t + PaceAt(i, out, back), out, back)
             ELSE s1

ShadowOpOf(op, frame) == [op |-> op, frame |-> frame]

\* --- actions -------------------------------------------------------------
\* configure() at any time; the sector layout of a track that has been
\* configured is not changed by a later call
Configure ==
    /\ \E config \in Configs :
          /\ startFinishLine # NullV => config.sectors = sectorBoundaries
          /\ ShadowCommit(configure(ShadowWorld, config),
                          ShadowOpOf("configure", NullV))
    /\ UNCHANGED <<carVars, streamVars>>

ShadowSubscribe ==
    /\ \E l \in 1..NumShadowListeners :
          /\ l \notin shadowListeners
          /\ ShadowCommit(shadowSubscribe(ShadowWorld, l),
                          ShadowOpOf("subscribe", NullV))
    /\ UNCHANGED <<carVars, streamVars>>

OnLapComplete ==
    /\ \E l \in 1..NumLapListeners :
          /\ l \notin lapCompleteListeners
          /\ ShadowCommit(onLapComplete(ShadowWorld, l),
                          ShadowOpOf("onLapComplete", NullV))
    /\ UNCHANGED <<carVars, streamVars>>

\* the next frame of the drive arrives; Date.now() reads the frame's time
Ingest ==
    /\ framesSent < MaxShadowFrames
    /\ startFinishLine = NullV => framesSent < MaxEarlyFrames
    /\ ShadowCommit(ingestFrame(ShadowWorld, CarFrame, carTime),
                    ShadowOpOf("ingest", CarFrame))
    /\ framesSent' = framesSent + 1
    /\ carIndex' = (carIndex + 1) % LoopFrames
    /\ IF carIndex = 0 THEN carPace' \in Paces ELSE carPace' = carPace
    /\ carTime' = carTime + carPace'
    /\ UNCHANGED streamVars

Reset ==
    /\ ShadowCommit(reset(ShadowWorld), ShadowOpOf("reset", NullV))
    /\ UNCHANGED <<carVars, streamVars>>

\* configure() of a new engine on a track of one of three sector layouts
ConfigureTrack ==
    /\ startFinishLine = NullV
    /\ \E config \in TrackConfigs :
          /\ ShadowCommit(configure(ShadowWorld, config),
                          ShadowOpOf("configure", NullV))
    /\ UNCHANGED <<carVars, streamVars>>

\* the car, on the start/finish point, drives one whole loop: LoopFrames
\* frames are ingested one after the other, the last one 20 m before the
\* start/finish point
DriveLoop ==
    /\ startFinishLine # NullV
    /\ carIndex = 0
    /\ framesSent < MaxLoops * LoopFrames
    /\ \E out \in LapPaces, back \in LapPaces :
          /\ ShadowCommit(DriveFrom(ShadowWorld, 0, carTime, out, back),
                          ShadowOpOf("loop", NullV))
          /\ carTime' = carTime + (LoopFrames \div 2) * (out + back)
          /\ carPace' = back
    /\ framesSent' = framesSent + LoopFrames
    /\ UNCHANGED <<carIndex, streamVars>>

\* the ids setShadowLap() is called with: those of the completed laps, the
\* id of the synthetic shadow, the id of the lap in progress and an id no
\* lap ever had
LapIds ==
    {completedLaps[k].id : k \in 1..Len(completedLaps)}
        \cup {ShadowOptimalId, LapId(0, 0)}
        \cup (IF currentLap = NullV THEN {} ELSE {currentLap.id})

SetShadowLap ==
    /\ \E lapId \in LapIds :
          LET s == setShadowLap(ShadowWorld, lapId)
          IN  ShadowCommit(s, [op |-> "setShadowLap", frame |-> NullV,
                               lapId |-> lapId, returned |-> s.returned])
    /\ UNCHANGED <<carVars, streamVars>>

Init ==
    /\ state = "idle"
    /\ endpoint = ""
    /\ eventSource = Null
    /\ frameListeners = {}
    /\ stateListeners = {}
    /\ recoveryTimer = Null
    /\ backoffGenerator = fibonacciMs
    /\ recoveryAttempts = 0
    /\ positionHistory = <<>>
    /\ frameSequence = 0
    /\ timers = {}
    /\ transports = {}
    /\ lastOp = [op |-> "init", url |-> "", raw |-> NoMessage, noop |-> FALSE,
                 timerWasPending |-> FALSE, transportWasOpen |-> FALSE]
    /\ stateCalls = <<>>
    /\ frameCalls = <<>>
    /\ timersCreated = {}
    /\ scheduledSinceReset = 0
    /\ lastSeqOut = 0
    /\ reopened = FALSE
    /\ decoderCalls = <<>>
    /\ derivedCount = 0
    /\ pauseInEffect = FALSE
    /\ failing = FALSE
    /\ startFinishLine = NullV
    /\ startFinishRadius = DefaultRadius
    /\ minLapTime = DefaultMinLapTime
    /\ sectorBoundaries = <<>>
    /\ trackLength = 0
    /\ completedLaps = <<>>
    /\ currentLap = NullV
    /\ shadowLap = NullV
    /\ shadowState = EmptyShadowState(0)
    /\ shadowListeners = {}
    /\ lapCompleteListeners = {}
    /\ lastFrame = NullV
    /\ crossingCooldown = 0
    /\ shadowOp = ShadowOpOf("init", NullV)
    /\ emitCalls = <<>>
    /\ lapCompleteCalls = <<>>
    /\ lapCompleteEvents = 0
    /\ carIndex = 0
    /\ carTime = 1000
    /\ carPace = 800
    /\ framesSent = 0

Next ==
    \/ Connect
    \/ Disconnect
    \/ Pause
    \/ Resume
    \/ Open
    \/ TransportError
    \/ TimerFires
    \/ Message
    \/ Subscribe
    \/ Unsubscribe
    \/ OnStateChange
    \/ OffStateChange

Spec == Init /\ [][Next]_vars

\* From some point on every connection attempt fails and nobody calls
\* connect() or disconnect().
StartFailing ==
    /\ ~failing
    /\ failing' = TRUE
    /\ UNCHANGED <<engineVars, hostVars, obsVars, shadowVars>>

\* The connection handlers and the state listeners; decoding a message
\* and registering a frame listener leave the state, the timers and the
\* transports as they are.
NextFailing ==
    \/ Connect
    \/ Disconnect
    \/ Pause
    \/ Resume
    \/ Open
    \/ TransportError
    \/ TimerFires
    \/ OnStateChange
    \/ OffStateChange
    \/ StartFailing

\* An armed timer fires; in the failing mode an open or opening transport
\* reports an error.
FairSpec ==
    /\ Init
    /\ [][NextFailing]_vars
    /\ WF_vars(TimerFires)
    /\ WF_vars(failing /\ TransportError)

\* The normalizer on its own: a connection is made and opened, a listener
\* subscribes, and messages of every shape arrive.
NextDecode ==
    \/ Connect
    \/ Open
    \/ Subscribe
    \/ Decode

SpecDecode == Init /\ [][NextDecode]_vars

\* the manager fed the samples of a turning car
NextHeading ==
    \/ Connect
    \/ Open
    \/ Subscribe
    \/ DecodeHeading

SpecHeading == Init /\ [][NextHeading]_vars

\* The Shadow-Line Engine on its own, fed the frames of a car driving loops.
NextShadow ==
    \/ Configure
    \/ ShadowSubscribe
    \/ OnLapComplete
    \/ Ingest
    \/ Reset

SpecShadow == Init /\ [][NextShadow]_vars

\* the shadow engine driven loop by loop, with setShadowLap()
NextLaps ==
    \/ ConfigureTrack
    \/ DriveLoop
    \/ SetShadowLap

SpecLaps == Init /\ [][NextLaps]_vars

\* ------------------------------------------------------------------------
\* Connection state machine
\* ------------------------------------------------------------------------
\* the state changes a handler made are logged one by one, in order, and
\* they lead from the state before the handler to the state after it
ChangesLogged ==
    LET real == SelectSeq(stateCalls', LAMBDA c : c.from # c.to)
    IN  /\ real = <<>> => state' = state
        /\ real # <<>> =>
              /\ real[1].from = state
              /\ real[Len(real)].to = state'
              /\ \A i \in 1..(Len(real) - 1) : real[i].to = real[i + 1].from

ListedTransitions ==
    {<<"idle", "connecting">>, <<"connecting", "live">>, <<"live", "paused">>,
     <<"paused", "live">>, <<"live", "recovering">>,
     <<"connecting", "recovering">>, <<"recovering", "connecting">>,
     <<"recovering", "dead">>}

ActualTransitions ==
    (ListedTransitions \ {<<"recovering", "dead">>})
        \cup {<<"paused", "recovering">>, <<"connecting", "dead">>}

ChangesWithin(allowed, calls, op) ==
    \A i \in DOMAIN calls :
        \/ calls[i].from = calls[i].to
        \/ <<calls[i].from, calls[i].to>> \in allowed
        \/ op.op = "connect" /\ calls[i].to = "connecting"
        \/ op.op = "disconnect" /\ calls[i].to = "idle"

\* C1 as stated: every state change is one of idle->connecting,
\* connecting->live, live->paused, paused->live, live->recovering,
\* connecting->recovering, recovering->connecting, recovering->dead, or the
\* result of connect() (to connecting) or disconnect() (to idle).
C1_AsStated ==
    [][ChangesLogged /\ ChangesWithin(ListedTransitions, stateCalls', lastOp')]_vars

\* C1 amended: every state change is one of idle->connecting,
\* connecting->live, live->paused, paused->live, live->recovering,
\* paused->recovering, connecting->recovering, recovering->connecting,
\* connecting->dead, or the result of connect() (to connecting) or
\* disconnect() (to idle).
C1_Transitions ==
    [][ChangesLogged /\ ChangesWithin(ActualTransitions, stateCalls', lastOp')]_vars

\* a transport error while paused has moved the manager to recovering
C1_Witness ==
    /\ lastOp.op = "error"
    /\ state = "recovering"
    /\ \E i \in DOMAIN stateCalls : stateCalls[i].from = "paused"

\* C2: dead is entered only by a transport error (or a failed open) once 10
\* retry timers were scheduled since the last open or connect(); an error
\* with budget left ends in recovering with a timer armed; never more than
\* 10 timers are scheduled without an open or connect() in between.
C2_RetryBudget ==
    /\ scheduledSinceReset <= MaxRecoveryAttempts
    /\ (\E i \in DOMAIN stateCalls :
           stateCalls[i].to = "dead" /\ stateCalls[i].from # "dead")
          => /\ lastOp.op \in {"error", "timer"}
             /\ timersCreated = {}
             /\ scheduledSinceReset = 10
    /\ lastOp.op = "error" =>
          \/ state = "recovering" /\ timersCreated # {} /\ timers # {}
                /\ recoveryTimer \in TimerIds(World)
          \/ state = "dead" /\ timersCreated = {} /\ scheduledSinceReset = 10

\* the eleventh consecutive error has exhausted the budget
C2_Witness ==
    /\ state = "dead"
    /\ lastOp.op = "error"
    /\ scheduledSinceReset = 10

\* C3: when every attempt fails and nobody calls connect()/disconnect(),
\* a manager with a transport or a timer outstanding reaches dead; in dead
\* no timer is armed and no transport is open, and only connect() or
\* disconnect() changes the state (pause()/resume() change nothing).
C3_DeadIsTerminal ==
    /\ (failing /\ (transports # {} \/ timers # {})) ~> (state = "dead")
    /\ [](state = "dead" => timers = {} /\ transports = {})
    /\ [][state = "dead" /\ state' # "dead"
              => lastOp'.op \in {"connect", "disconnect"}]_vars
    /\ [][state = "dead" /\ lastOp'.op \in {"pause", "resume"}
              => UNCHANGED <<engineVars, hostVars>> /\ stateCalls' = <<>>]_vars

\* dead was reached in the failing mode and pause() was then called
C3_Witness ==
    /\ failing
    /\ state = "dead"
    /\ lastOp.op = "pause"

RECURSIVE Fib(_)
Fib(k) == IF k <= 2 THEN 1 ELSE Fib(k - 1) + Fib(k - 2)

DelayTable == <<1000, 1000, 2000, 3000, 5000, 8000, 13000, 21000, 30000, 30000>>

\* C4: the timer of the k-th recovery attempt since the last open or
\* connect() is armed with min(1000*Fib(k), 30000) ms, i.e. 1000, 1000,
\* 2000, 3000, 5000, 8000, 13000, 21000, 30000, 30000.
C4_FibonacciDelay ==
    \A t \in timers :
        /\ scheduledSinceReset \in 1..10
        /\ t.delay = Min(1000 * Fib(scheduledSinceReset), 30000)
        /\ t.delay = DelayTable[scheduledSinceReset]

\* after an open reset the sequence, a later ninth attempt is capped
C4_Witness ==
    /\ lastSeqOut > 0
    /\ scheduledSinceReset = 9
    /\ \E t \in timers : t.delay = 30000

\* C5: at most one retry timer is armed; after a connect() that is not the
\* no-op, every armed timer was armed by that call.
C5_OneTimer ==
    /\ Cardinality(timers) <= 1
    /\ lastOp.op = "connect" /\ ~lastOp.noop => TimerIds(World) \subseteq timersCreated

\* connect() was called while a timer was armed, and none is armed now
C5_Witness ==
    /\ lastOp.op = "connect"
    /\ lastOp.timerWasPending
    /\ timers = {}
    /\ state = "connecting"

\* C6: at most one transport is open; connect() and disconnect() leave no
\* transport and no timer from before the call; a timer never fires while
\* a transport is open.
C6_OneTransport ==
    /\ Cardinality(transports) <= 1
    /\ lastOp.op = "disconnect" => transports = {} /\ timers = {}
    /\ lastOp.op = "connect" /\ ~lastOp.noop =>
          /\ TransportIds(World) \subseteq {eventSource}
          /\ \A e \in transports : e.ready = "connecting"
          /\ TimerIds(World) \subseteq timersCreated
    /\ lastOp.op = "timer" => ~lastOp.transportWasOpen

\* connect() replaced an open transport by a new one
C6_Witness ==
    /\ lastOp.op = "connect"
    /\ lastOp.transportWasOpen
    /\ Cardinality(transports) = 1

\* C7: connect(url) while live on url changes nothing and notifies nobody.
C7_ConnectNoOp ==
    [][lastOp'.op = "connect" /\ state = "live" /\ lastOp'.url = endpoint
          => /\ UNCHANGED <<state, endpoint, eventSource, transports,
                            frameSequence, positionHistory, backoffGenerator,
                            recoveryAttempts, recoveryTimer, timers>>
             /\ stateCalls' = <<>>
             /\ frameCalls' = <<>>]_vars

\* connect() on the current endpoint of a live manager that has decoded
\* frames, filled the window and has a state listener
C7_Witness ==
    /\ lastOp.op = "connect"
    /\ lastOp.noop
    /\ state = "live"
    /\ transports # {}
    /\ frameSequence > 0
    /\ positionHistory # <<>>
    /\ stateListeners # {}

\* C8: disconnect() ends in idle with no timer and no transport; in idle
\* nothing is outstanding, and only connect() leaves idle.
C8_Disconnect ==
    /\ [](lastOp.op = "disconnect" => state = "idle")
    /\ [](state = "idle" => timers = {} /\ transports = {})
    /\ [][state = "idle" /\ state' # "idle" => lastOp'.op = "connect"]_vars

\* disconnect() was called while a retry timer was armed
C8_Witness ==
    /\ lastOp.op = "disconnect"
    /\ lastOp.timerWasPending
    /\ state = "idle"

\* C9: pause() only takes live to paused, resume() only paused to live,
\* neither touches the transport; a message that arrives while paused is
\* not forwarded and consumes no sequence number.
C9_PauseResume ==
    [][/\ lastOp'.op = "pause" =>
            /\ state' = IF state = "live" THEN "paused" ELSE state
            /\ UNCHANGED <<transports, eventSource>>
       /\ lastOp'.op = "resume" =>
            /\ state' = IF state = "paused" THEN "live" ELSE state
            /\ UNCHANGED <<transports, eventSource>>
       /\ lastOp'.op = "message" /\ state = "paused" =>
            /\ frameCalls' = <<>>
            /\ UNCHANGED <<frameSequence, positionHistory, state>>]_vars

\* a decodable message arrived while paused, with a subscriber registered
C9_Witness ==
    /\ lastOp.op = "message"
    /\ lastOp.raw = MsgNested
    /\ state = "paused"
    /\ frameListeners # {}

\* C10: a decoded frame's sequence number is one more than that of the
\* frame decoded before it since connect(), the first being 1, also across
\* an automatic reconnection.
C10_SequenceNumbers ==
    [][frameCalls' # <<>> =>
          /\ Len(frameCalls') = 1
          /\ frameCalls'[1].frame.seq = lastSeqOut + 1
          /\ frameSequence' = lastSeqOut + 1]_vars

\* the second frame was decoded after an automatic reconnection
C10_Witness ==
    /\ frameCalls # <<>>
    /\ frameCalls[1].frame.seq = 2
    /\ frameCalls[1].afterReopen

\* ------------------------------------------------------------------------
\* Message normalizer
\* ------------------------------------------------------------------------

\* the four wire shapes, as the contract of the normalizer words them
HasShapeGpsFix(raw) ==
    raw.json = "object" /\ Get(raw.top, "class") = Str("TPV")

HasShapeFlat(raw) ==
    /\ raw.json = "object"
    /\ DOMAIN raw.top \cap {"lat", "lon", "latitude", "longitude"} # {}

HasShapeNested(raw) == raw.json = "object" /\ "gps" \in DOMAIN raw.sub

HasShapeCSV(raw) == raw.json = "invalid" /\ Len(raw.parts) >= 8

\* the coordinate a message carries, read in the shape of highest priority
\* that it has; Undefined when it has none of the shapes
CoordinateOf(raw, short, long, part) ==
    IF HasShapeGpsFix(raw) THEN Get(raw.top, short)
    ELSE IF HasShapeFlat(raw)
    THEN Coalesce(Get(raw.top, short), Get(raw.top, long))
    ELSE IF HasShapeNested(raw) THEN Get(SubObj(raw, "gps"), short)
    ELSE IF HasShapeCSV(raw) THEN raw.parts[part].float
    ELSE Undefined

NoUsablePosition(raw) ==
    \/ CoordinateOf(raw, "lat", "latitude", 2).ty # "num"
    \/ CoordinateOf(raw, "lon", "longitude", 3).ty # "num"

\* C11: a message of none of the four shapes, or whose latitude or
\* longitude is missing, non-numeric or NaN, yields no frame: no frame
\* listener is called and the sequence counter is unchanged.
C11_AsStated ==
    [][lastOp'.op = "message" /\ state = "live"
         /\ NoUsablePosition(lastOp'.raw) =>
            /\ frameCalls' = <<>>
            /\ frameSequence' = frameSequence]_vars

\* C12: processing a message, decodable or not, leaves the connection
\* state, the retry timer and the open transport as they were (so the next
\* message is delivered to the same handler), and no state listener is called.
C12_MessageKeepsConnection ==
    [][lastOp'.op = "message" =>
          /\ UNCHANGED <<state, endpoint, timers, recoveryTimer,
                         transports, eventSource, recoveryAttempts>>
          /\ stateCalls' = <<>>
          /\ timersCreated' = {}]_vars

\* text that is valid JSON and still throws inside the handler arrived on a
\* live connection, with a listener subscribed
C12_Witness ==
    /\ lastOp.op = "message"
    /\ lastOp.raw = MsgJsonNull
    /\ state = "live"
    /\ frameListeners # {}
    /\ \E e \in transports : e.id = eventSource /\ e.ready = "open"

\* C13: a class-TPV report yields a frame only when its mode is at least 2;
\* with a mode below 2 or without a mode it yields no frame and consumes no
\* sequence number.
C13_AsStated ==
    [][lastOp'.op = "message" /\ state = "live"
         /\ HasShapeGpsFix(lastOp'.raw) =>
            LET mode == Get(lastOp'.raw.top, "mode")
            IN  \/ mode.ty = "num" /\ mode.n >= 2
                \/ /\ frameCalls' = <<>>
                   /\ frameSequence' = frameSequence]_vars

\* a flat object that gives its position under latitude/longitude only
AliasOnly(raw) ==
    /\ raw.json = "object"
    /\ ~HasShapeGpsFix(raw)
    /\ DOMAIN raw.top \cap {"lat", "lon"} = {}
    /\ Get(raw.top, "latitude").ty = "num"
    /\ Get(raw.top, "longitude").ty = "num"

\* C14: a flat object that gives its position under latitude/longitude
\* only is decoded to a frame with those coordinates.
C14_AsStated ==
    [][lastOp'.op = "message" /\ state = "live" /\ AliasOnly(lastOp'.raw) =>
          /\ frameCalls' # <<>>
          /\ frameCalls'[1].frame.lat = Get(lastOp'.raw.top, "latitude")
          /\ frameCalls'[1].frame.lon = Get(lastOp'.raw.top, "longitude")]_vars

LateralNames == <<"gLat", "latG", "gForceLat">>
LongitudinalNames == <<"gLong", "longG", "gForceLong">>

\* the value a message supplies under the first of the names it carries
Supplied(m, names) ==
    Coalesce(Get(m, names[1]),
             Coalesce(Get(m, names[2]), Coalesce(Get(m, names[3]), Num(0))))

CarriesAcceleration(m) ==
    DOMAIN m \cap {"gLat", "latG", "gForceLat",
                   "gLong", "longG", "gForceLong"} # {}

\* C15: a frame of the flat decoder carries derived acceleration only when
\* the message has no acceleration field; when it has one, the supplied
\* values are in the frame, the frame is flagged as measured and the
\* kinematics window is left alone.
C15_AsStated ==
    [][lastOp'.op = "message" /\ decoderCalls' = <<"fromDirectJSON">>
         /\ frameCalls' # <<>> =>
            LET m == lastOp'.raw.top
                f == frameCalls'[1].frame
            IN  IF CarriesAcceleration(m)
                THEN /\ f.gLateral = Supplied(m, LateralNames)
                     /\ f.gLongitudinal = Supplied(m, LongitudinalNames)
                     /\ ~f.isGpsDerived
                     /\ positionHistory' = positionHistory
                ELSE f.isGpsDerived]_vars

\* the decoder the priority order gives a message to
DecoderFor(raw) ==
    IF raw.json = "object"
    THEN IF HasShapeGpsFix(raw) THEN <<"fromGPSD">>
         ELSE IF Get(raw.top, "lat").ty = "num" /\ Get(raw.top, "lon").ty = "num"
         THEN <<"fromDirectJSON">>
         ELSE IF HasShapeNested(raw) THEN <<"fromVBOXJSON">>
         ELSE <<>>
    ELSE IF raw.json = "invalid" THEN <<"parseCSV">>
    ELSE <<>>

\* C16: a message is given to one decoder at most, the one of highest
\* priority among GPS-fix, flat and nested whose shape it has, and the CSV
\* decoder is entered only for text that is not valid JSON.
C16_AsStated ==
    [][lastOp'.op = "message" /\ state = "live" =>
          decoderCalls' = DecoderFor(lastOp'.raw)]_vars

\* C17: the first two frames with derived acceleration after connect()
\* have lateral and longitudinal G exactly 0.
C17_FirstTwoDerivedZero ==
    \A i \in 1..Len(frameCalls) :
        frameCalls[i].frame.isGpsDerived /\ frameCalls[i].derivedBefore < 2 =>
            /\ frameCalls[i].frame.gLateral = Num(0)
            /\ frameCalls[i].frame.gLongitudinal = Num(0)

\* the second derived frame since connect(), its speed and heading unlike
\* those of the sample before it, delivered to a listener
C17_Witness ==
    /\ frameCalls # <<>>
    /\ frameCalls[1].frame.isGpsDerived
    /\ frameCalls[1].derivedBefore = 1
    /\ frameCalls[1].listeners # {}
    /\ Len(positionHistory) = 2
    /\ positionHistory[1].speed # positionHistory[2].speed
    /\ positionHistory[1].heading # positionHistory[2].heading

\* the time from the sample two positions back to the newest one
TwoBackDt == positionHistory[Len(positionHistory)].t.n
                 - positionHistory[Len(positionHistory) - 2].t.n

OneBackDt == positionHistory[Len(positionHistory)].t.n
                 - positionHistory[Len(positionHistory) - 1].t.n

\* a frame with derived acceleration was just built on a window of three
\* samples or more with numeric times
DerivedOnFullWindow ==
    /\ frameCalls # <<>>
    /\ frameCalls[1].frame.isGpsDerived
    /\ Len(positionHistory) >= MinSamples
    /\ \A i \in 1..Len(positionHistory) : positionHistory[i].t.ty = "num"

\* C18: when the newest sample is not later than the sample two positions
\* back, or more than 2 s later, both derived values are 0; otherwise they
\* are the rates against that sample, not against the preceding one.
C18_StaleBaseline ==
    DerivedOnFullWindow =>
        LET curr == positionHistory[Len(positionHistory)]
            prev == positionHistory[Len(positionHistory) - 2]
            f == frameCalls[1].frame
        IN  IF TwoBackDt <= 0 \/ TwoBackDt > MaxDtMs
            THEN f.gLateral = Num(0) /\ f.gLongitudinal = Num(0)
            ELSE /\ f.gLongitudinal =
                        Clamp(LongitudinalG(curr.speed, prev.speed, TwoBackDt))
                 /\ f.gLateral =
                        Clamp(LateralG(curr.speed, curr.heading,
                                       prev.heading, TwoBackDt))

\* the newest sample is older than the one two back although it is 100 ms
\* after the preceding one, whose speed differs
C18_Witness ==
    /\ DerivedOnFullWindow
    /\ TwoBackDt < 0
    /\ OneBackDt = 100
    /\ positionHistory[Len(positionHistory)].speed
           # positionHistory[Len(positionHistory) - 1].speed

\* ------------------------------------------------------------------------
\* Shadow-Line Engine
\* ------------------------------------------------------------------------

\* C19: ingest(frame) on an engine that has not been configured changes no
\* field of the engine (no lap, last frame, cooldown, laps, shadow or
\* published state) and calls no listener.
C19_IngestUnconfigured ==
    [][shadowOp'.op = "ingest" /\ startFinishLine = NullV =>
          /\ UNCHANGED shadowEngineVars
          /\ emitCalls' = <<>>
          /\ lapCompleteCalls' = <<>>
          /\ lapCompleteEvents' = lapCompleteEvents]_vars

\* a frame on the start/finish point arrived, both kinds of listener are
\* registered, and the engine is not configured
C19_Witness ==
    /\ shadowOp.op = "ingest"
    /\ shadowOp.frame.lon = 0
    /\ startFinishLine = NullV
    /\ shadowListeners # {}
    /\ lapCompleteListeners # {}

\* C20: a recognised crossing (the cooldown is set anew) creates a Lap
\* Record exactly when a lap is in progress, has a point and has lasted
\* minLapTime; the record is then appended to the history, handed once to
\* the onLapComplete listeners, and the shadow is synthesised again; no
\* other frame and no other call but reset() changes the history or calls
\* an onLapComplete listener. So the onLapComplete rounds since reset()
\* number the completed laps.
C20_LapRecords ==
    /\ [][shadowOp'.op = "ingest" =>
            LET frame == shadowOp'.frame
                valid == /\ crossingCooldown' = CooldownFrames
                         /\ currentLap # NullV
                         /\ Len(currentLap.points) > 0
                         /\ frame.timestamp - currentLap.startTime
                                >= minLapTime * 1000
                rec == completedLaps'[Len(completedLaps')]
            IN  IF valid
                THEN /\ Len(completedLaps') = Len(completedLaps) + 1
                     /\ SubSeq(completedLaps', 1, Len(completedLaps))
                            = completedLaps
                     /\ rec.id = currentLap.id
                     /\ rec.startTime = currentLap.startTime
                     /\ rec.endTime = frame.timestamp
                     /\ rec.lapTime = frame.timestamp - currentLap.startTime
                     /\ rec.points = currentLap.points
                     /\ lapCompleteCalls'
                            = <<[listeners |-> lapCompleteListeners,
                                 lap |-> rec]>>
                     /\ shadowState'.shadowLapId = shadowLap'.id
                     /\ IF Len(completedLaps') = 1 THEN shadowLap' = rec
                        ELSE shadowLap'.id = ShadowOptimalId
                ELSE /\ completedLaps' = completedLaps
                     /\ lapCompleteCalls' = <<>>]_vars
    /\ [][shadowOp'.op \notin {"ingest", "reset"} =>
            /\ completedLaps' = completedLaps
            /\ lapCompleteCalls' = <<>>]_vars
    /\ [](lapCompleteEvents = Len(completedLaps))

\* the second lap was just closed and handed to a listener
C20_Witness ==
    /\ shadowOp.op = "ingest"
    /\ Len(completedLaps) = 2
    /\ Len(lapCompleteCalls) = 1
    /\ lapCompleteCalls[1].listeners # {}
    /\ lapCompleteCalls[1].lap = completedLaps[2]
    /\ shadowLap.id = ShadowOptimalId

\* the frame just ingested was recognised as a crossing: the cooldown was
\* set anew
RecognisedCrossing ==
    /\ shadowOp'.op = "ingest"
    /\ startFinishLine # NullV
    /\ crossingCooldown' = CooldownFrames

\* C21: a recognised crossing of a lap that has lasted less than
\* minLapTime leaves that lap open: same id, same start time, its points
\* kept (the crossing frame's point added), its distance carried on.
C21_AsStated ==
    [][/\ RecognisedCrossing
       /\ currentLap # NullV
       /\ shadowOp'.frame.timestamp - currentLap.startTime < minLapTime * 1000
       => /\ currentLap'.id = currentLap.id
          /\ currentLap'.startTime = currentLap.startTime
          /\ Len(currentLap'.points) = Len(currentLap.points) + 1
          /\ SubSeq(currentLap'.points, 1, Len(currentLap.points))
                 = currentLap.points
          /\ currentLap'.accumulatedDistance
                 >= currentLap.accumulatedDistance]_vars

\* C22: a recognised crossing starts a lap at distance zero, and the state
\* published for the crossing frame has distanceInLap = 0, currentDelta = 0,
\* all sectorDeltas = 0 and empty echo trails.
C22_AsStated ==
    [][RecognisedCrossing =>
          /\ currentLap'.accumulatedDistance = 0
          /\ currentLap'.points[1].distance = 0
          /\ Len(emitCalls') = 1
          /\ emitCalls'[1].state.distanceInLap = 0
          /\ emitCalls'[1].state.currentDelta = 0
          /\ \A i \in 1..Len(emitCalls'[1].state.sectorDeltas) :
                 emitCalls'[1].state.sectorDeltas[i] = 0
          /\ emitCalls'[1].state.echoTrail.user = <<>>
          /\ emitCalls'[1].state.echoTrail.shadow = <<>>]_vars

\* C23: with exactly one completed lap the shadow lap is that lap, and the
\* published shadowLapId is its id.
C23_SingleLapShadow ==
    Len(completedLaps) = 1 =>
        /\ shadowLap = completedLaps[1]
        /\ shadowState.shadowLapId = completedLaps[1].id

\* the first lap was just closed, and its state handed to a listener
C23_Witness ==
    /\ shadowOp.op = "ingest"
    /\ Len(completedLaps) = 1
    /\ Len(lapCompleteCalls) = 1
    /\ emitCalls # <<>>
    /\ emitCalls[1].listeners # {}
    /\ emitCalls[1].state.shadowLapId = completedLaps[1].id
    /\ Len(shadowLap.points) = LoopFrames

\* the engine as constructed (field initialisers), with the listeners of
\* the running engine
NewEngine ==
    [ShadowWorld EXCEPT !.startFinishLine = NullV,
                        !.startFinishRadius = DefaultRadius,
                        !.minLapTime = DefaultMinLapTime,
                        !.sectorBoundaries = <<>>,
                        !.trackLength = 0,
                        !.completedLaps = <<>>,
                        !.currentLap = NullV,
                        !.shadowLap = NullV,
                        !.shadowState = EmptyShadowState(0),
                        !.lastFrame = NullV,
                        !.crossingCooldown = 0,
                        !.lapCompleteEvents = 0]

\* the configuration the engine runs with
CurrentConfig ==
    [startFinishLine |-> startFinishLine,
     startFinishRadius |-> Num(startFinishRadius),
     minLapTime |-> Num(minLapTime),
     trackLength |-> trackLength,
     sectors |-> sectorBoundaries]

\* C27: reset() empties the lap history, the lap in progress, the shadow
\* lap, the last frame and the cooldown, publishes the cleared state, keeps
\* the configuration, and leaves a configured engine as configure() leaves
\* a new one, so that the frames that follow are processed alike.
C27_ResetClears ==
    [][shadowOp'.op = "reset" =>
          /\ completedLaps' = <<>>
          /\ currentLap' = NullV
          /\ shadowLap' = NullV
          /\ lastFrame' = NullV
          /\ crossingCooldown' = 0
          /\ shadowState'
                 = [currentLapId |-> NullV,
                    shadowLapId |-> NullV,
                    distanceInLap |-> 0,
                    currentDelta |-> 0,
                    sectorDeltas |-> [i \in 1..Len(sectorBoundaries) |-> 0],
                    shadowPosition |-> NullV,
                    echoTrail |-> [user |-> <<>>, shadow |-> <<>>]]
          /\ Len(emitCalls') = 1
          /\ emitCalls'[1].listeners = shadowListeners
          /\ emitCalls'[1].state = shadowState'
          /\ UNCHANGED <<startFinishLine, startFinishRadius, minLapTime,
                         sectorBoundaries, trackLength, shadowListeners,
                         lapCompleteListeners>>
          /\ startFinishLine # NullV =>
                 /\ [ShadowWorld EXCEPT !.emitCalls = <<>>]'
                        = configure(NewEngine, CurrentConfig)
                 /\ ingestFrame(ShadowWorld, CarFrame, carTime)'
                        = ingestFrame(configure(NewEngine, CurrentConfig),
                                      CarFrame, carTime)]_vars

\* a reset in the second loop of a configured engine with a listener
C27_Witness ==
    /\ shadowOp.op = "reset"
    /\ startFinishLine # NullV
    /\ shadowListeners # {}
    /\ framesSent > LoopFrames
    /\ carIndex \notin {0, 1}

\* what a listener reads, after the step, in the state object it was given
HeldAfterStep(call) ==
    IF call.byReference /\ shadowOp'.op # "reset"
    THEN shadowState'
    ELSE call.state

\* C28: a state handed to a listener is a snapshot: the calls that follow
\* do not change what the listener holds.
C28_AsStated ==
    [][\A k \in 1..Len(emitCalls) :
           emitCalls[k].listeners # {} =>
               HeldAfterStep(emitCalls[k]) = emitCalls[k].state]_vars

\* C29: a lookup at exactly the distance of a stored shadow point gives
\* that stored point, every field as stored, sectorIndex included.
C29_AsStated ==
    /\ shadowOp.op = "ingest"
    /\ currentLap # NullV
    /\ shadowLap # NullV
    => \A k \in 1..Len(shadowLap.points) :
           shadowLap.points[k].distance = shadowState.distanceInLap
               => shadowState.shadowPosition = shadowLap.points[k]

\* C30: radius 25, minLapTime 30, one sector [0, 1000): the crossing that
\* ends a 40 s loop gives one lap-complete event with lapTime 40 s and
\* sectorTimes of one element of about 40 s; from the second on, the shadow
\* is computed anew.
C30_AsStated ==
    [][/\ RecognisedCrossing
       /\ startFinishRadius = 25
       /\ minLapTime = 30
       /\ sectorBoundaries = OneSector
       /\ currentLap # NullV
       /\ shadowOp'.frame.timestamp - currentLap.startTime = 40000
       => /\ Len(completedLaps') = Len(completedLaps) + 1
          /\ lapCompleteEvents' = lapCompleteEvents + 1
          /\ LET lap == completedLaps'[Len(completedLaps')]
             IN  /\ lap.lapTime = 40000
                 /\ Len(lap.sectorTimes) = 1
                 /\ lap.sectorTimes[1] \in 38000..42000
          /\ shadowLap' # NullV
          /\ shadowState'.shadowLapId = shadowLap'.id]_vars

\* the smallest positive time of sector i over the completed laps, 0 when
\* there is none
SectorMin(i) ==
    LET times == {completedLaps[k].sectorTimes[i] :
                      k \in 1..Len(completedLaps)} \ {0}
    IN  IF times = {} THEN 0
        ELSE CHOOSE t \in times : \A u \in times : t <= u

\* the earliest completed lap with that time, 0 when there is none
SectorSource(i) ==
    LET laps == {k \in 1..Len(completedLaps) :
                     /\ SectorMin(i) > 0
                     /\ completedLaps[k].sectorTimes[i] = SectorMin(i)}
    IN  IF laps = {} THEN 0
        ELSE CHOOSE k \in laps : \A j \in laps : k <= j

\* the points of a lap inside sector i, their times counted from the first
SegmentOf(points, i) ==
    LET inside == SelectSeq(points,
                    LAMBDA p :
                        /\ p.distance >= sectorBoundaries[i].startDistance
                        /\ p.distance < sectorBoundaries[i].endDistance)
    IN  [k \in 1..Len(inside) |->
            [inside[k] EXCEPT !.elapsedTime = @ - inside[1].elapsedTime]]

RECURSIVE SumOf(_, _)
SumOf(times, i) ==
    IF i > Len(times) THEN 0 ELSE times[i] + SumOf(times, i + 1)

\* the shadow lap is the synthetic one, made from two or more laps
Synthesized ==
    /\ Len(completedLaps) >= 2
    /\ shadowLap # NullV
    /\ shadowLap.id = ShadowOptimalId

\* C24: with two or more completed laps the synthesized shadow has, for
\* every sector, the smallest positive time of that sector over the laps
\* (0 when no lap has one) and the segment of the earliest lap with that
\* time, and its lap time is the sum of these sector times.
C24_BestSectors ==
    Synthesized =>
        /\ Len(shadowLap.sectorTimes) = Len(sectorBoundaries)
        /\ \A i \in 1..Len(sectorBoundaries) :
              /\ shadowLap.sectorTimes[i] = SectorMin(i)
              /\ SegmentOf(shadowLap.points, i)
                     = IF SectorSource(i) = 0 THEN <<>>
                       ELSE SegmentOf(completedLaps[SectorSource(i)].points,
                                      i)
        /\ shadowLap.lapTime = SumOf(shadowLap.sectorTimes, 1)
        /\ shadowState.shadowLapId = ShadowOptimalId

\* the two sectors of the shadow come from two different laps
C24_Witness ==
    /\ Synthesized
    /\ shadowOp.op = "loop"
    /\ Len(sectorBoundaries) = 2
    /\ SectorSource(1) # 0
    /\ SectorSource(2) # 0
    /\ SectorSource(1) # SectorSource(2)

\* the ids of the completed laps
HistoryIds == {completedLaps[k].id : k \in 1..Len(completedLaps)}

\* C25: setShadowLap(lapId) with the id of a completed lap makes that lap
\* the shadow lap (getShadowLap() returns it, shadowLapId is lapId), and
\* the lap completions that follow do not replace it.
C25_AsStated ==
    [][/\ /\ shadowOp'.op = "setShadowLap"
          /\ shadowOp'.lapId \in HistoryIds
          => /\ shadowOp'.returned = TRUE
             /\ getShadowLap(ShadowWorld)'
                    = completedLaps[FindLap(completedLaps, shadowOp'.lapId)]
             /\ shadowState'.shadowLapId = shadowOp'.lapId
       /\ /\ shadowOp.op = "setShadowLap"
          /\ shadowOp.returned = TRUE
          /\ shadowOp'.op = "loop"
          => /\ Len(completedLaps') = Len(completedLaps) + 1
             /\ getShadowLap(ShadowWorld)' = getShadowLap(ShadowWorld)
             /\ shadowState'.shadowLapId = shadowOp.lapId]_vars

\* C26: setShadowLap(lapId) with an id that no completed lap has (the
\* synthetic shadow's id included) returns false, changes nothing in the
\* engine and calls no listener.
C26_UnknownId ==
    [][/\ shadowOp'.op = "setShadowLap"
       /\ shadowOp'.lapId \notin HistoryIds
       => /\ shadowOp'.returned = FALSE
          /\ UNCHANGED shadowEngineVars
          /\ emitCalls' = <<>>
          /\ lapCompleteCalls' = <<>>]_vars

\* the synthetic shadow's own id was refused while it was the shadow lap
C26_Witness ==
    /\ shadowOp.op = "setShadowLap"
    /\ shadowOp.lapId = ShadowOptimalId
    /\ shadowOp.returned = FALSE
    /\ Synthesized
    /\ currentLap # NullV

\* the frame handed to the ingest call that was just made
FrameIn == shadowOp'.frame

\* the cooldown counter after the decrement of this frame
CooldownAfterDecrement ==
    IF crossingCooldown > 0 THEN crossingCooldown - 1 ELSE 0

\* the frame is inside the radius around the start/finish point
InsideRadius(frame) ==
    haversineDistance(frame.lat, frame.lon,
                      startFinishLine.lat, startFinishLine.lon)
        < startFinishRadius

SortedByDistance(points) ==
    \A k \in 1..(Len(points) - 1) :
        points[k].distance <= points[k + 1].distance

\* C32: the points of the lap in progress and of every completed lap are
\* in order of non-decreasing distance, and the distance of a lap never
\* decreases from one frame to the next of that lap.
C32_DistanceMonotone ==
    /\ [](currentLap # NullV => SortedByDistance(currentLap.points))
    /\ [](\A k \in 1..Len(completedLaps) :
              SortedByDistance(completedLaps[k].points))
    /\ [][/\ currentLap # NullV
          /\ currentLap' # NullV
          /\ currentLap'.id = currentLap.id
          => currentLap'.accumulatedDistance
                 >= currentLap.accumulatedDistance]_vars

\* the car is on its way back, in a lap, after a lap was closed
C32_Witness ==
    /\ shadowOp.op = "ingest"
    /\ currentLap # NullV
    /\ Len(completedLaps) = 1
    /\ 2 * carIndex > LoopFrames
    /\ currentLap.accumulatedDistance > 500

\* the sector the lap's distance is in, 1-based
SectorNow ==
    getCurrentSector([sectorBoundaries |-> sectorBoundaries],
                     currentLap.accumulatedDistance) + 1

\* the frame just ingested was recorded on a lap, and a shadow point found
DeltaComputed ==
    /\ shadowOp'.op = "ingest"
    /\ startFinishLine # NullV
    /\ currentLap' # NullV
    /\ shadowLap' # NullV
    /\ shadowLap'.points # <<>>

\* the shadow's point at the lap's distance
ShadowPointNow ==
    findShadowPointAtDistance([shadowLap |-> shadowLap],
                              currentLap.accumulatedDistance)

\* the delta of the frame: elapsed lap time minus the shadow's elapsed
\* time at the lap's distance
DeltaOfFrame ==
    (FrameIn.timestamp - currentLap'.startTime)
        - shadowState'.shadowPosition.elapsedTime

C36_ShadowStable ==
    [][shadowLap' # shadowLap =>
          \/ /\ shadowOp'.op \in {"ingest", "loop"}
             /\ Len(completedLaps') = Len(completedLaps) + 1
          \/ /\ shadowOp'.op = "setShadowLap"
             /\ shadowOp'.returned = TRUE
          \/ shadowOp'.op = "reset"]_vars

\* configure() was called again while a shadow lap existed
C36_Witness ==
    /\ shadowOp.op = "configure"
    /\ shadowLap # NullV
    /\ currentLap # NullV
    /\ Len(currentLap.points) > 1

\* C39: the point found for the lap's distance lies within the shadow
\* lap: the first stored point for a distance up to the first point's,
\* the last stored point for a distance beyond the last point's, and else
\* a point whose elapsed time is between those of the bracketing pair.
C39_AsStated ==
    /\ shadowOp.op = "ingest"
    /\ currentLap # NullV
    /\ shadowLap # NullV
    /\ shadowLap.points # <<>>
    => LET points == shadowLap.points
           d == currentLap.accumulatedDistance
           r == shadowState.shadowPosition
       IN  /\ d <= points[1].distance => r = points[1]
           /\ d > points[Len(points)].distance => r = points[Len(points)]
           /\ \A k \in 1..(Len(points) - 1) :
                  /\ points[k].distance < d
                  /\ d <= points[k + 1].distance
                  => /\ r.elapsedTime >= points[k].elapsedTime
                     /\ r.elapsedTime <= points[k + 1].elapsedTime

\* the sectors do not overlap and are listed by increasing distance
IncreasingSectors ==
    /\ \A i \in 1..Len(sectorBoundaries) :
           sectorBoundaries[i].startDistance < sectorBoundaries[i].endDistance
    /\ \A i \in 1..(Len(sectorBoundaries) - 1) :
           sectorBoundaries[i].endDistance
               <= sectorBoundaries[i + 1].startDistance

SortedBySector(points) ==
    \A k \in 1..(Len(points) - 1) :
        points[k].sectorIndex <= points[k + 1].sectorIndex

\* C33: with non-overlapping sectors in increasing order the sectorIndex
\* values of the points of a lap, in progress or completed, never
\* decrease.
C33_AsStated ==
    IncreasingSectors =>
        /\ currentLap # NullV => SortedBySector(currentLap.points)
        /\ \A k \in 1..Len(completedLaps) :
               SortedBySector(completedLaps[k].points)

\* the elapsed time of the first point of the lap that reached the end
\* of sector i, -1 when none did
SectorEndTime(lap, i) ==
    LET reached == {k \in 1..Len(lap.points) :
                        lap.points[k].distance
                            >= sectorBoundaries[i].endDistance}
    IN  IF reached = {} THEN -1
        ELSE lap.points[CHOOSE k \in reached :
                            \A j \in reached : k <= j].elapsedTime

\* the end time of the last sector before i that has one, 0 when none has
PreviousEndTime(lap, i) ==
    LET before == {j \in 1..(i - 1) : SectorEndTime(lap, j) # -1}
    IN  IF before = {} THEN 0
        ELSE SectorEndTime(lap, CHOOSE j \in before :
                                    \A h \in before : h <= j)

\* C34: for a completed lap, sectorTimes[i] is the elapsed time of the
\* first point at or beyond the end of sector i minus the end time of the
\* previous sector that has such a point (0 if none), and 0 when no point
\* reached the end of sector i.
C34_SectorTimes ==
    \A k \in 1..Len(completedLaps) :
        LET lap == completedLaps[k]
        IN  /\ Len(lap.sectorTimes) = Len(sectorBoundaries)
            /\ \A i \in 1..Len(sectorBoundaries) :
                   /\ lap.sectorTimes[i]
                          = IF SectorEndTime(lap, i) = -1 THEN 0
                            ELSE SectorEndTime(lap, i)
                                     - PreviousEndTime(lap, i)
                   /\ lap.sectorTimes[i] # 0 =>
                          \E j \in 1..Len(lap.points) :
                              lap.points[j].distance
                                  >= sectorBoundaries[i].endDistance

\* a lap with a timed second sector after a timed first one, and a lap
\* that did not reach the end of its last sector
C34_Witness ==
    /\ Len(completedLaps) = 2
    /\ Len(sectorBoundaries) = 2
    /\ completedLaps[2].sectorTimes[1] > 0
    /\ completedLaps[2].sectorTimes[2] > 0
    /\ completedLaps[2].sectorTimes[2]
           < SectorEndTime(completedLaps[2], 2)
    /\ completedLaps[1].sectorTimes[2] = 0

\* the distances a lookup may be made at
QueryDistances == {50 * n : n \in 0..24}

\* C40: the points of a shadow lap, be it a lap taken as it is, stitched
\* from several laps or set by setShadowLap(), are in order of
\* non-decreasing distance, and the binary search gives the first stored
\* point at or beyond the distance asked for, when there is one.
C40_ShadowSorted ==
    shadowLap # NullV =>
        /\ SortedByDistance(shadowLap.points)
        /\ \A d \in QueryDistances :
               FirstAtLeast(shadowLap.points, d) # 0 =>
                   BinarySearch(shadowLap.points, d, 0,
                                Len(shadowLap.points) - 1) + 1
                       = FirstAtLeast(shadowLap.points, d)

\* a shadow stitched from the sectors of two different laps
C40_Witness ==
    /\ Synthesized
    /\ Len(sectorBoundaries) = 2
    /\ SectorSource(1) # 0
    /\ SectorSource(2) # 0
    /\ SectorSource(1) # SectorSource(2)
    /\ Len(shadowLap.points) > LoopFrames \div 2
    /\ shadowOp.op = "setShadowLap"

\* ------------------------------------------------------------------------
\* Kinematics and pausing
\* ------------------------------------------------------------------------
\* the heading of the newest sample and of the baseline two samples back
CurrentHeading == positionHistory[Len(positionHistory)].heading.n
BaselineHeading == positionHistory[Len(positionHistory) - 2].heading.n

\* a frame was just derived from a full window
TurnDerived ==
    /\ lastOp.op = "message"
    /\ Len(positionHistory) >= MinSamples
    /\ frameCalls # <<>>
    /\ frameCalls[1].frame.isGpsDerived

\* C37: for headings in [0, 360) the heading difference used for lateral G
\* is in [-180, 180] and congruent to current - baseline modulo 360, and
\* the lateral G of the frame has its sign: from 350 to 10 degrees the
\* difference is +20.
C37_ShortestTurn ==
    TurnDerived =>
        LET used == normalizeAngle(CurrentHeading - BaselineHeading)
            gLat == frameCalls[1].frame.gLateral.n
        IN  /\ used >= -180
            /\ used <= 180
            /\ (used - (CurrentHeading - BaselineHeading)) % 360 = 0
            /\ (BaselineHeading = 350 /\ CurrentHeading = 10) => used = 20
            /\ (used > 0) = (gLat > 0)
            /\ (used < 0) = (gLat < 0)

\* from 350 to 10 degrees in one second: a turn to the right
C37_Witness ==
    /\ TurnDerived
    /\ BaselineHeading = 350
    /\ CurrentHeading = 10
    /\ frameCalls[1].frame.gLateral.n > 0
    /\ frameCalls[1].listeners # {}

\* C38: once pause() has taken effect, no frame is forwarded until
\* resume(), connect() or disconnect() is called, whatever errors and
\* recoveries happen in between.
C38_AsStated ==
    [][pauseInEffect /\ lastOp'.op = "message"
           => \A k \in 1..Len(frameCalls') : frameCalls'[k].listeners = {}]_vars

====
